---- MODULE Spec2Model ----
(***************************************************************************)
(* The command dispatchers of the overlay manager, in its two variants:    *)
(*   "overlays" - src/overlays.py, which buffers commands during a break   *)
(*   "main"     - src/main.py, which discards commands during a break      *)
(* A behaviour runs one of the two programs; `variant` says which.  Time   *)
(* is a discrete clock `now` (time.time(), in seconds).                    *)
(***************************************************************************)
EXTENDS Integers, Sequences, FiniteSets, TLC

\* ------------------------------------------------------------ bounds
\* the clock runs from 0 to MaxTime
MaxTime == 2
\* requests (API calls / pipe commands) issued in one behaviour
MaxCmds == 4
\* _run_manager_thread threads started in one behaviour (main.py)
MaxThreads == 2

VARIABLES
    variant,            \* which program this behaviour runs
    now,                \* time.time()
    nextReq,            \* requests issued so far + 1 (the identity of a request)
    command_queue,      \* self.command_queue
    shutdown_event,     \* self.shutdown_event
    applied,            \* history: requests executed, in execution order
    \* ---- overlays.py: OverlayManager fields
    _threads,           \* self._threads is non-empty (start() has run)
    cmd_thread,         \* state of the _run_command_thread thread
    _break_until,
    _pending_commands,
    rectangles,
    countdowns,
    qrcodes,
    _next_rect_id,
    _next_countdown_id,
    _next_qrcode_id,
    _qrcode_order,
    _countdown_order,
    timers,             \* started threading.Timer objects that have not fired
    removing,           \* _remove_rectangle calls between reading and assigning self.rectangles
    reply_queue,        \* reply_queue of each request (its id), a sequence of replies
    \* ---- main.py: OverlayManager fields, dispatcher threads, windows, callers
    response_queue,     \* self.response_queue
    thread,             \* self.thread: a dispatcher thread, or 0 for None
    dispatchers,        \* per _run_manager_thread thread: its state and its locals
    hwnds,              \* the windows that exist (win32gui.IsWindow), by handle
    next_hwnd,          \* the handle the next created window gets
    calls,              \* the calls waiting for a reply (response_queue.get in main.py,
                        \* reply_queue.get in overlays.py), by request: the command name
    dropped,            \* history: requests discarded by the break branch
    returned,           \* history: what the call of a request returned, by request
    response_for,       \* history: the request that caused each response in response_queue
    issued_ids,         \* history: the window ids main.py put on the response queue
    \* ---- the named pipe listener (_run_pipe_server) of either program
    pipe_thread,        \* where the listener thread is
    pipe_log,           \* history: each message read from a client, and what was written back
    \* ---- objects of main.py and helpers.py taken by themselves
    etw,                \* an ElapsedTimeWindow: its fields and the win32 calls it made
    gdi                 \* a GDIContext: its fields and the win32 calls it made

ovVars == <<_threads, cmd_thread, _break_until, _pending_commands, rectangles,
            countdowns, qrcodes, _next_rect_id, _next_countdown_id, _next_qrcode_id,
            _qrcode_order, _countdown_order, timers, removing, reply_queue>>

mainVars == <<response_queue, thread, dispatchers, hwnds, next_hwnd, calls, dropped,
              returned, response_for, issued_ids>>

pipeVars == <<pipe_thread, pipe_log>>

objVars == <<etw, gdi>>

vars == <<variant, now, nextReq, command_queue, shutdown_event, applied, ovVars, mainVars,
          pipeVars, objVars>>

\* ------------------------------------------------------------ Python dicts
EmptyDict == [k \in {} |-> 0]

\* dict.get(key, default)
Get(d, key, default) == IF key \in DOMAIN d THEN d[key] ELSE default

\* del d[key] / a dict without one key
DictDel(d, key) == [k \in (DOMAIN d) \ {key} |-> d[k]]

\* d[key] = value
DictPut(d, key, value) == [k \in (DOMAIN d) \cup {key} |-> IF k = key THEN value ELSE d[k]]

\* truthiness of args.get(key, ""): the key is present and its value is neither
\* 0 nor the empty string (falsy is either of these two, by the value's type)
Truthy(d, key, falsy) == key \in DOMAIN d /\ d[key] # falsy

\* ------------------------------------------------------------ requests
\* break durations and overlay lifetimes a client asks for, in seconds
Durations == {1, 2}

\* pipe requests of overlays.py (command name and args dict) that clients send
\* around a break: the two break commands and commands the break gate holds back
OvBreakRequests ==
    {[cmd |-> "create_highlight", args |-> [rect |-> <<1, 2, 3, 4>>, timeout_seconds |-> 1]],
     [cmd |-> "create_highlight", args |-> EmptyDict],
     [cmd |-> "create_countdown", args |-> [message_text |-> "m", countdown_seconds |-> 1]],
     [cmd |-> "cancel_break", args |-> EmptyDict]}
    \cup {[cmd |-> "take_break", args |-> [duration_seconds |-> d]] : d \in Durations}

\* COMMANDS: the supported command names
COMMANDS == {"create_highlight", "create_countdown", "create_elapsed_time",
             "create_qrcode_window", "close_window", "update_window_message",
             "take_break", "cancel_break"}

\* ------------------------------------------------------------ overlays.py
(* The executing operators below work on a record `om` holding the fields of
   the OverlayManager object (and the reply queues), so that one dispatcher
   step can run several commands in a row; `t` is time.time() at the step.
   om.raised says that an exception has propagated out of a command.        *)
ThisOm ==
    [rectangles |-> rectangles, countdowns |-> countdowns, qrcodes |-> qrcodes,
     _next_rect_id |-> _next_rect_id, _next_countdown_id |-> _next_countdown_id,
     _next_qrcode_id |-> _next_qrcode_id, _qrcode_order |-> _qrcode_order,
     _countdown_order |-> _countdown_order, _break_until |-> _break_until,
     _pending_commands |-> _pending_commands, timers |-> timers,
     reply_queue |-> reply_queue, applied |-> applied, raised |-> FALSE]

\* one reply queue shared by all requests: every reply goes to the first queue
PutShared(om, id, r) == [om EXCEPT !.reply_queue[1] = Append(@, r)]

\* reply_queue.put(r) on the reply queue made for request `id`
Put(om, id, r) == [om EXCEPT !.reply_queue[id] = Append(@, r)]

\* history: the command of request `req` has been executed
Executed(om, req) == [om EXCEPT !.applied = Append(@, [id |-> req.id, cmd |-> req.cmd])]

\* the colour drawn by random.randint is not modelled: no claim reads it
add_highlight_window(om, coords, duration_s, t) ==
    LET rid == om._next_rect_id
    IN  [om EXCEPT !._next_rect_id = @ + 1,
                   !.rectangles = Append(@, [id |-> rid, coords |-> coords]),
                   !.timers = @ \cup {[fn |-> "_remove_rectangle", id |-> rid,
                                       due |-> t + duration_s]}]

add_elapsed_time_window(om, message_text, t) ==
    LET cid == om._next_countdown_id
        ord == om._countdown_order + 1
    IN  [om EXCEPT !._next_countdown_id = @ + 1,
                   !._countdown_order = ord,
                   !.countdowns = DictPut(@, cid, [message |-> message_text,
                                                   start_time |-> t, order |-> ord])]

add_countdown_window(om, message_text, countdown_seconds, t) ==
    LET cid == om._next_countdown_id
        ord == om._countdown_order + 1
    IN  [om EXCEPT !._next_countdown_id = @ + 1,
                   !._countdown_order = ord,
                   !.countdowns = DictPut(@, cid, [message |-> message_text,
                                                   end_time |-> t + countdown_seconds,
                                                   remaining |-> countdown_seconds,
                                                   order |-> ord])]

\* the QR matrix and its pixel sizes are not modelled (the encoding is a library's)
add_qrcode_window(om, metadata, timeout_seconds, caption, t) ==
    LET qr_id == om._next_qrcode_id
        ord == om._qrcode_order + 1
    IN  [om EXCEPT !._next_qrcode_id = @ + 1,
                   !._qrcode_order = ord,
                   !.qrcodes = DictPut(@, qr_id, [caption |-> caption, order |-> ord]),
                   !.timers = @ \cup {[fn |-> "remove_qrcode_window", id |-> qr_id,
                                       due |-> t + timeout_seconds]}]

\* a close_window that closes whatever has the id, highlights and QR codes too
close_window_any(om, window_id) ==
    [om EXCEPT !.countdowns = IF window_id \in DOMAIN @ THEN DictDel(@, window_id) ELSE @,
               !.qrcodes = IF window_id \in DOMAIN @ THEN DictDel(@, window_id) ELSE @,
               !.rectangles = SelectSeq(@, LAMBDA r : r.id # window_id)]

close_window(om, window_id) ==
    IF window_id \in DOMAIN om.countdowns
    THEN [om EXCEPT !.countdowns = DictDel(@, window_id)]
    ELSE om

update_window(om, window_id, new_msg) ==
    IF window_id \in DOMAIN om.countdowns
    THEN [om EXCEPT !.countdowns[window_id].message = new_msg]
    ELSE om

\* a take_break that keeps a deadline already set
take_break_keeps(om, duration_s, t) ==
    IF om._break_until # 0 THEN om ELSE [om EXCEPT !._break_until = t + duration_s]

take_break(om, duration_s, t) == [om EXCEPT !._break_until = t + duration_s]

cancel_break(om) == [om EXCEPT !._break_until = 0, !._pending_commands = <<>>]

\* the length add_highlight_window(*rect) needs
RectLen == 4

\* CreateHighlightCommand.execute: args["rect"] raises KeyError without the key,
\* and add_highlight_window(*rect) raises TypeError unless rect has 4 elements
CreateHighlightCommand(om, req, t) ==
    IF "rect" \notin DOMAIN req.args \/ Len(req.args.rect) # RectLen
    THEN [om EXCEPT !.raised = TRUE]
    ELSE LET timeout == Get(req.args, "timeout_seconds", 3)
             win_id == om._next_rect_id
         IN  Executed(Put(add_highlight_window(om, req.args.rect, timeout, t), req.id,
                          [status |-> "success", window_id |-> win_id]), req)

CreateCountdownCommand(om, req, t) ==
    LET msg == Get(req.args, "message_text", "")
        secs == Get(req.args, "countdown_seconds", 3)
        win_id == om._next_countdown_id
    IN  Executed(Put(add_countdown_window(om, msg, secs, t), req.id,
                     [status |-> "success", window_id |-> win_id]), req)

CreateElapsedTimeCommand(om, req, t) ==
    LET msg == Get(req.args, "message_text", "")
        win_id == om._next_countdown_id
    IN  Executed(Put(add_elapsed_time_window(om, msg, t), req.id,
                     [status |-> "success", window_id |-> win_id]), req)

CreateQRCodeCommand(om, req, t) ==
    LET content == Get(req.args, "data", "")
        duration_seconds == Get(req.args, "duration", 5)
        caption == Get(req.args, "caption", "")
        win_id == om._next_qrcode_id
    IN  Executed(Put(add_qrcode_window(om, content, duration_seconds, caption, t), req.id,
                     [status |-> "success", window_id |-> win_id]), req)

CloseWindowCommand(om, req) ==
    LET window_id == Get(req.args, "window_id", "")
    IN  IF Truthy(req.args, "window_id", 0)
        THEN Executed(Put(close_window(om, window_id), req.id,
                          [status |-> "success", message |-> <<"Window", window_id, "closed">>]),
                      req)
        ELSE Executed(om, req)

UpdateWindowMessageCommand(om, req) ==
    LET window_id == Get(req.args, "window_id", "")
        new_message == Get(req.args, "new_message", "")
    IN  IF Truthy(req.args, "window_id", 0) /\ Truthy(req.args, "new_message", "")
        THEN Executed(Put(update_window(om, window_id, new_message), req.id,
                          [status |-> "success", message |-> <<"Window", window_id, "updated">>]),
                      req)
        ELSE Executed(om, req)

TakeBreakCommand(om, req, t) ==
    LET duration_seconds == Get(req.args, "duration_seconds", 0)
    IN  Executed(Put(take_break(om, duration_seconds, t), req.id,
                     [status |-> "success",
                      message |-> <<"Break started for", duration_seconds, "seconds">>]), req)

CancelBreakCommand(om, req) ==
    Executed(Put(cancel_break(om), req.id,
                 [status |-> "success", message |-> <<"Break canceled">>]), req)

\* COMMANDS[cmd].execute(self, args, reply_queue)
Execute(om, req, t) ==
    CASE req.cmd = "create_highlight" -> CreateHighlightCommand(om, req, t)
      [] req.cmd = "create_countdown" -> CreateCountdownCommand(om, req, t)
      [] req.cmd = "create_elapsed_time" -> CreateElapsedTimeCommand(om, req, t)
      [] req.cmd = "create_qrcode_window" -> CreateQRCodeCommand(om, req, t)
      [] req.cmd = "close_window" -> CloseWindowCommand(om, req)
      [] req.cmd = "update_window_message" -> UpdateWindowMessageCommand(om, req)
      [] req.cmd = "take_break" -> TakeBreakCommand(om, req, t)
      [] req.cmd = "cancel_break" -> CancelBreakCommand(om, req)

\* the commands _run_command_thread executes whatever the break state is
BreakCommands == {"take_break", "cancel_break"}

\* a gate that opens one second early
BreakActiveEarly(om, t) == om._break_until # 0 /\ t + 1 < om._break_until

\* a break is running: self._break_until and time.time() < self._break_until
BreakActive(om, t) == om._break_until # 0 /\ t < om._break_until

\* the deadline of a break has passed: self._break_until and time.time() >= ...
BreakExpired(om, t) == om._break_until # 0 /\ t >= om._break_until

\* a replay that pops the newest buffered command first: pop() for pop(0)
PopLast(pending) == Len(pending)

\* self._pending_commands.pop(0): the index popped
PopIndex(pending) == 1

\* a sequence without its i-th element
RemoveAt(s, i) == SubSeq(s, 1, i - 1) \o SubSeq(s, i + 1, Len(s))

\* while self._pending_commands: pop(0) and execute; an exception ends the loop
\* (and the thread) with the popped command gone and the rest still buffered
RECURSIVE ReplayPending(_, _)
ReplayPending(om, t) ==
    IF om.raised \/ om._pending_commands = <<>>
    THEN om
    ELSE LET i == PopIndex(om._pending_commands)
             p == om._pending_commands[i]
             popped == [om EXCEPT !._pending_commands = RemoveAt(@, i)]
         IN  ReplayPending(Execute(popped, p, t), t)

\* an iteration whose break branch lacks the `continue`: the command is
\* buffered and executed
HandleCommandNoContinue(om, req, t) ==
    IF req.cmd \in BreakCommands
    THEN Execute(om, req, t)
    ELSE IF BreakActive(om, t)
    THEN Execute([om EXCEPT !._pending_commands = Append(@, req)], req, t)
    ELSE LET om1 == IF BreakExpired(om, t)
                    THEN ReplayPending([om EXCEPT !._break_until = 0], t)
                    ELSE om
         IN  IF om1.raised THEN om1 ELSE Execute(om1, req, t)

\* one iteration of _run_command_thread that got the request `req` from the queue
HandleCommand(om, req, t) ==
    IF req.cmd \in BreakCommands
    THEN Execute(om, req, t)
    ELSE IF BreakActive(om, t)
    THEN [om EXCEPT !._pending_commands = Append(@, req)]
    ELSE LET om1 == IF BreakExpired(om, t)
                    THEN ReplayPending([om EXCEPT !._break_until = 0], t)
                    ELSE om
         IN  IF om1.raised THEN om1 ELSE Execute(om1, req, t)


\* ------------------------------------------------------------ actions: overlays.py
\* assign the fields of `om` to the variables
Store(om) ==
    /\ rectangles' = om.rectangles
    /\ countdowns' = om.countdowns
    /\ qrcodes' = om.qrcodes
    /\ _next_rect_id' = om._next_rect_id
    /\ _next_countdown_id' = om._next_countdown_id
    /\ _next_qrcode_id' = om._next_qrcode_id
    /\ _qrcode_order' = om._qrcode_order
    /\ _countdown_order' = om._countdown_order
    /\ _break_until' = om._break_until
    /\ _pending_commands' = om._pending_commands
    /\ timers' = om.timers
    /\ reply_queue' = om.reply_queue
    /\ applied' = om.applied

\* OverlayManager.start(): starts the four threads unless _threads is non-empty
OvStart ==
    /\ variant = "overlays"
    /\ ~_threads
    /\ _threads' = TRUE
    /\ cmd_thread' = "running"
    /\ pipe_thread' = "accept"
    /\ UNCHANGED <<pipe_log, objVars, variant, now, nextReq, command_queue, shutdown_event, applied,
                   _break_until, _pending_commands, rectangles, countdowns, qrcodes,
                   _next_rect_id, _next_countdown_id, _next_qrcode_id, _qrcode_order,
                   _countdown_order, timers, removing, reply_queue, mainVars>>

\* _process_pipe_command with a supported command: a new reply queue, the
\* request (cmd, args, reply_queue) put on the command queue, and the caller
\* waits in reply_queue.get(timeout=10)
OvProcessPipeCommand(requests) ==
    /\ variant = "overlays"
    /\ nextReq <= MaxCmds
    /\ \E r \in requests :
          /\ r.cmd \in COMMANDS
          /\ command_queue' = Append(command_queue,
                                     [id |-> nextReq, cmd |-> r.cmd, args |-> r.args])
          /\ calls' = DictPut(calls, nextReq, r.cmd)
    /\ nextReq' = nextReq + 1
    /\ UNCHANGED <<pipeVars, objVars, variant, now, shutdown_event, applied, ovVars, response_queue,
                   thread, dispatchers, hwnds, next_hwnd, dropped, returned, response_for,
                   issued_ids>>

\* the reply of _process_pipe_command when reply_queue.get raises queue.Empty
OvTimedOut == [status |-> "error", message |-> <<"Command timed out">>]

\* reply_queue.get returns the reply to the waiting call of request i, which
\* returns it (reply_queue[i] keeps recording what was put on that queue)
OvCallGets(i) ==
    /\ variant = "overlays"
    /\ i \in DOMAIN calls
    /\ reply_queue[i] # <<>>
    /\ calls' = DictDel(calls, i)
    /\ returned' = DictPut(returned, i, [call |-> calls[i], value |-> reply_queue[i][1]])
    /\ UNCHANGED <<pipeVars, objVars, variant, now, nextReq, command_queue, shutdown_event, applied,
                   ovVars, response_queue, thread, dispatchers, hwnds, next_hwnd, dropped,
                   response_for, issued_ids>>

\* reply_queue.get raises queue.Empty after the 10 s, and the call of request i returns
OvCallTimesOut(i) ==
    /\ variant = "overlays"
    /\ i \in DOMAIN calls
    /\ reply_queue[i] = <<>>
    /\ calls' = DictDel(calls, i)
    /\ returned' = DictPut(returned, i, [call |-> calls[i], value |-> OvTimedOut])
    /\ UNCHANGED <<pipeVars, objVars, variant, now, nextReq, command_queue, shutdown_event, applied,
                   ovVars, response_queue, thread, dispatchers, hwnds, next_hwnd, dropped,
                   response_for, issued_ids>>

\* one iteration of the loop of _run_command_thread with a command in the queue;
\* an exception out of a command ends the thread
OvCommandThread ==
    /\ variant = "overlays"
    /\ cmd_thread = "running"
    /\ ~shutdown_event
    /\ command_queue # <<>>
    /\ LET om == HandleCommand(ThisOm, Head(command_queue), now)
       IN  /\ Store(om)
           /\ cmd_thread' = IF om.raised THEN "dead" ELSE "running"
    /\ command_queue' = Tail(command_queue)
    /\ UNCHANGED <<pipeVars, objVars, variant, now, nextReq, shutdown_event, _threads, removing, mainVars>>

\* `while not self.shutdown_event.is_set()` of _run_command_thread turns false
OvCommandThreadExit ==
    /\ variant = "overlays"
    /\ cmd_thread = "running"
    /\ shutdown_event
    /\ cmd_thread' = "exited"
    /\ UNCHANGED <<pipeVars, objVars, variant, now, nextReq, command_queue, shutdown_event, applied,
                   _threads, _break_until, _pending_commands, rectangles, countdowns,
                   qrcodes, _next_rect_id, _next_countdown_id, _next_qrcode_id,
                   _qrcode_order, _countdown_order, timers, removing, reply_queue, mainVars>>

\* self.rectangles = [r for r in self.rectangles if r["id"] != rid]
_remove_rectangle(rects, rid) == SelectSeq(rects, LAMBDA r : r.id # rid)

\* a threading.Timer started by add_highlight_window or add_qrcode_window fires,
\* in its own thread: _remove_rectangle(rid) or remove_qrcode_window(qr_id)
OvTimerFires ==
    /\ variant = "overlays"
    /\ \E tm \in timers :
          /\ now >= tm.due
          /\ timers' = timers \ {tm}
          /\ IF tm.fn = "_remove_rectangle"
             THEN /\ rectangles' = _remove_rectangle(rectangles, tm.id)
                  /\ UNCHANGED qrcodes
             ELSE /\ qrcodes' = IF tm.id \in DOMAIN qrcodes
                                THEN DictDel(qrcodes, tm.id) ELSE qrcodes
                  /\ UNCHANGED rectangles
    /\ UNCHANGED <<pipeVars, objVars, variant, now, nextReq, command_queue, shutdown_event, applied,
                   _threads, cmd_thread, _break_until, _pending_commands, countdowns,
                   _next_rect_id, _next_countdown_id, _next_qrcode_id, _qrcode_order,
                   _countdown_order, removing, reply_queue, mainVars>>

\* a remaining value that is one second ahead of the clock
RemainingEarly(cd, t) == IF cd.end_time - t - 1 > 0 THEN cd.end_time - t - 1 ELSE 0

\* max(0, math.ceil(cd["end_time"] - now)) on the integer clock
Remaining(cd, t) == IF cd.end_time - t > 0 THEN cd.end_time - t ELSE 0

\* _run_countdown_manager, in its own thread: one countdown of the sweep is
\* removed (remaining <= 0) or gets its new remaining value
OvCountdownManager ==
    /\ variant = "overlays"
    /\ _threads
    /\ ~shutdown_event
    /\ \E cid \in DOMAIN countdowns :
          LET cd == countdowns[cid]
          IN  /\ "end_time" \in DOMAIN cd
              /\ IF Remaining(cd, now) <= 0
                 THEN countdowns' = DictDel(countdowns, cid)
                 ELSE /\ cd.remaining # Remaining(cd, now)
                      /\ countdowns' = [countdowns EXCEPT ![cid].remaining = Remaining(cd, now)]
    /\ UNCHANGED <<pipeVars, objVars, variant, now, nextReq, command_queue, shutdown_event, applied,
                   _threads, cmd_thread, _break_until, _pending_commands, rectangles,
                   qrcodes, _next_rect_id, _next_countdown_id, _next_qrcode_id,
                   _qrcode_order, _countdown_order, timers, removing, reply_queue, mainVars>>

\* OverlayManager.shutdown() of overlays.py: the event is set (the joins only wait)
OvShutdown ==
    /\ variant = "overlays"
    /\ ~shutdown_event
    /\ shutdown_event' = TRUE
    /\ UNCHANGED <<pipeVars, objVars, variant, now, nextReq, command_queue, applied, ovVars, mainVars>>

\* a second passes
Tick ==
    /\ now < MaxTime
    /\ now' = now + 1
    /\ UNCHANGED <<pipeVars, objVars, variant, nextReq, command_queue, shutdown_event, applied, ovVars, mainVars>>

\* ------------------------------------------------------------ main.py
(* A request of main.py is the tuple the API call puts on the command queue:
   its name is `cmd`, the rest of the tuple is `args`; the None sentinel of
   shutdown() is the request NoneRequest.  A response is a record: `r` is
   "break_started", "break_canceled" or "window_id" (then with the id).
   The dispatcher operators work on a record `m` of what one iteration of
   _run_manager_thread reads and writes: its own locals (`disp`), the windows,
   the response queue and the histories.                                     *)
\* a sentinel that is not None
NotNoneRequest == [id |-> 0, cmd |-> "cancel_break", args |-> <<>>]

NoneRequest == [id |-> 0, cmd |-> "None", args |-> <<>>]

\* API calls made around a break in main.py: the tuples put on the command queue
MainBreakRequests ==
    {[cmd |-> "create_countdown", args |-> <<"m", 1>>],
     [cmd |-> "create_elapsed", args |-> <<"m">>],
     [cmd |-> "close_window", args |-> <<1>>],
     [cmd |-> "cancel_break", args |-> <<>>]}
    \cup {[cmd |-> "take_break", args |-> <<d>>] : d \in Durations}

\* the API calls that wait for a response
BlockingCalls == {"create_elapsed", "take_break", "cancel_break"}

Response(r, window_id) == [r |-> r, window_id |-> window_id]

\* the locals of a _run_manager_thread thread when it starts
NewDispatcher ==
    [state |-> "running", break_until |-> 0, next_window_id |-> 1,
     window_map |-> EmptyDict, active_windows |-> <<>>]

NoDispatcher == [NewDispatcher EXCEPT !.state = "none"]

ThisM(d) ==
    [d |-> d, disp |-> dispatchers[d], hwnds |-> hwnds, response_queue |-> response_queue,
     next_hwnd |-> next_hwnd, applied |-> applied, dropped |-> dropped,
     issued_ids |-> issued_ids]

IsWindow(m, hwnd) == hwnd \in DOMAIN m.hwnds

\* history: the command of request `req` has been applied
Applied(m, req) == [m EXCEPT !.applied = Append(@, [id |-> req.id, cmd |-> req.cmd])]

\* win_height of create_window: the height of the measured text (or of the QR
\* code) plus padding.  The values stand for the heights Windows measures; a
\* highlight covers its rect and takes no part in the stacking
WinHeight(kind) ==
    CASE kind = "countdown" -> 60
      [] kind = "elapsed" -> 70
      [] kind = "qrcode" -> 150
      [] OTHER -> 0

\* a window object is made and create_window() gives it a handle and a 1000 ms
\* timer, at y = 20 + len(active_windows) * (win_height + 10)
CreateWindow(m, kind, message, seconds, t) ==
    [m EXCEPT !.hwnds = DictPut(@, m.next_hwnd,
                                [kind |-> kind, message |-> message, seconds |-> seconds,
                                 running |-> TRUE, next_timer |-> t + 1, owner |-> m.d,
                                 height |-> WinHeight(kind),
                                 y |-> IF kind = "highlight" THEN 0
                                       ELSE 20 + Len(m.disp.active_windows)
                                                   * (WinHeight(kind) + 10)]),
              !.next_hwnd = @ + 1]

\* a removal that fills the gap with the last window of the list
RemoveWindowSwap(active_windows, hwnd) ==
    LET n == Len(active_windows)
    IN  IF \A j \in 1..n : active_windows[j] # hwnd
        THEN active_windows
        ELSE LET i == CHOOSE j \in 1..n : active_windows[j] = hwnd
             IN  IF i = n THEN SubSeq(active_windows, 1, n - 1)
                 ELSE SubSeq(active_windows, 1, i - 1) \o <<active_windows[n]>>
                         \o SubSeq(active_windows, i + 1, n - 1)

\* window_manager.active_windows.remove(window), if it is in the list
RemoveWindow(active_windows, hwnd) == SelectSeq(active_windows, LAMBDA h : h # hwnd)

\* the loop of realign_windows from the i-th window of the list on: a window
\* with a handle is moved to current_y, and current_y grows by its height + padding
RECURSIVE MoveWindows(_, _, _, _)
MoveWindows(hw, active_windows, i, current_y) ==
    IF i > Len(active_windows)
    THEN hw
    ELSE IF active_windows[i] \in DOMAIN hw
    THEN MoveWindows([hw EXCEPT ![active_windows[i]].y = current_y], active_windows, i + 1,
                     current_y + hw[active_windows[i]].height + 10)
    ELSE MoveWindows(hw, active_windows, i + 1, current_y)

\* WindowManager.realign_windows: y_start = 20
realign_windows(m) == [m EXCEPT !.hwnds = MoveWindows(@, m.disp.active_windows, 1, 20)]

\* DestroyWindow(hwnd): WM_DESTROY runs on_destroy, which removes the window
\* from its manager's active_windows and realigns (WindowManager.remove_window)
DestroyWindow(m, hwnd) ==
    realign_windows([m EXCEPT !.hwnds = DictDel(@, hwnd),
                              !.disp.active_windows = RemoveWindow(@, hwnd)])

\* "Clean up closed windows": window_map and active_windows keep live windows
CleanUp(m) ==
    [m EXCEPT !.disp.window_map =
                  [i \in {j \in DOMAIN @ : IsWindow(m, @[j])} |-> @[i]],
              !.disp.active_windows = SelectSeq(@, LAMBDA h : IsWindow(m, h))]

\* a break that ends one second early
InBreakEarly(current_time, break_until) == current_time + 1 < break_until

\* current_time < break_until
InBreak(current_time, break_until) == current_time < break_until

\* the break branch of the loop: only cancel_break is processed, the None
\* sentinel is swallowed, every other request is discarded
BreakBranch(m, req) ==
    IF req.cmd = "None"
    THEN m
    ELSE IF req.cmd = "cancel_break"
    THEN Applied([m EXCEPT !.disp.break_until = 0,
                           !.response_queue = Append(@, Response("break_canceled", 0))], req)
    ELSE [m EXCEPT !.dropped = @ \cup {[id |-> req.id, cmd |-> req.cmd]}]

\* command == "take_break": the deadline is set and the call is confirmed
TakeBreak(m, duration_seconds, t) ==
    [m EXCEPT !.disp.break_until = t + duration_seconds,
              !.response_queue = Append(@, Response("break_started", 0))]

\* a cancel_break that acknowledges nothing when no break is active
CancelNoBreakSilent(m) == m

\* command == "cancel_break" outside a break: "still send a confirmation"
CancelNoBreak(m) ==
    [m EXCEPT !.response_queue = Append(@, Response("break_canceled", 0))]

\* the if/elif chain on the command name
ApplyCommand(m, req, t) ==
    CASE req.cmd = "take_break" -> TakeBreak(m, req.args[1], t)
      [] req.cmd = "cancel_break" -> CancelNoBreak(m)
      [] req.cmd = "create_countdown" ->
            realign_windows(
                [CreateWindow(m, "countdown", req.args[1], req.args[2], t)
                    EXCEPT !.disp.active_windows = Append(@, m.next_hwnd)])
      [] req.cmd = "create_highlight" ->
            CreateWindow(m, "highlight", "", req.args[2], t)
      [] req.cmd = "create_elapsed" ->
            realign_windows(
                [CreateWindow(m, "elapsed", req.args[1], 0, t)
                    EXCEPT !.disp.active_windows = Append(@, m.next_hwnd),
                           !.disp.window_map = DictPut(@, m.disp.next_window_id, m.next_hwnd),
                           !.response_queue =
                               Append(@, Response("window_id", m.disp.next_window_id)),
                           !.issued_ids = Append(@, m.disp.next_window_id),
                           !.disp.next_window_id = @ + 1])
      [] req.cmd = "update_message" ->
            IF req.args[1] \in DOMAIN m.disp.window_map
               /\ IsWindow(m, m.disp.window_map[req.args[1]])
            THEN [m EXCEPT !.hwnds[m.disp.window_map[req.args[1]]].message = req.args[2]]
            ELSE m
      [] req.cmd = "close_window" ->
            IF req.args[1] \in DOMAIN m.disp.window_map
            THEN LET hwnd == m.disp.window_map[req.args[1]]
                     m1 == IF IsWindow(m, hwnd) THEN DestroyWindow(m, hwnd) ELSE m
                 IN  realign_windows(
                         [m1 EXCEPT !.disp.active_windows = RemoveWindow(@, hwnd),
                                    !.disp.window_map = DictDel(@, req.args[1])])
            ELSE m
      [] req.cmd = "create_qrcode" ->
            realign_windows(
                [CreateWindow(m, "qrcode", req.args[3], req.args[2], t)
                    EXCEPT !.disp.active_windows = Append(@, m.next_hwnd)])
      [] OTHER -> m

\* the finally block of _run_manager_thread: the windows of window_map are destroyed
Finally(m) ==
    [m EXCEPT !.hwnds = [h \in {x \in DOMAIN @ :
                                   \A i \in DOMAIN m.disp.window_map : m.disp.window_map[i] # x}
                          |-> @[h]],
              !.disp.state = "exited"]

\* one iteration of the while loop of _run_manager_thread that gets `req` from
\* the command queue at time t
ManagerIteration(m, req, t) ==
    IF InBreak(t, m.disp.break_until)
    THEN BreakBranch(m, req)
    ELSE IF req.cmd = "None"
    THEN Finally(m)
    ELSE CleanUp(Applied(ApplyCommand(m, req, t), req))

\* on_timer of a window (WM_TIMER), and the WM_CLOSE it posts handled by the
\* same pump: Countdown/Highlight/QRCode windows count down and close at 0,
\* an ElapsedTimeWindow counts up while running and closes when stopped
OnTimer(m, hwnd, t) ==
    LET w == m.hwnds[hwnd]
    IN  IF w.kind = "elapsed"
        THEN IF w.running
             THEN [m EXCEPT !.hwnds[hwnd].seconds = @ + 1, !.hwnds[hwnd].next_timer = t + 1]
             ELSE DestroyWindow(m, hwnd)
        ELSE IF w.seconds - 1 <= 0
             THEN DestroyWindow(m, hwnd)
             ELSE [m EXCEPT !.hwnds[hwnd].seconds = @ - 1, !.hwnds[hwnd].next_timer = t + 1]

\* ------------------------------------------------------------ actions: main.py
StoreM(d, m) ==
    /\ dispatchers' = [dispatchers EXCEPT ![d] = m.disp]
    /\ hwnds' = m.hwnds
    /\ response_queue' = m.response_queue
    /\ next_hwnd' = m.next_hwnd
    /\ applied' = m.applied
    /\ dropped' = m.dropped
    /\ issued_ids' = m.issued_ids

Running(d) == dispatchers[d].state = "running"

\* start_thread() starts a thread: self.thread is None or not alive
NeedsThread == thread = 0 \/ ~Running(thread)

\* the thread start_thread() starts
FreshThread == CHOOSE d \in 1..MaxThreads : dispatchers[d].state = "none"
                   /\ \A e \in 1..MaxThreads : dispatchers[e].state = "none" => d <= e

CanStart == \E d \in 1..MaxThreads : dispatchers[d].state = "none"

\* OverlayManager() once more: __new__ returns the singleton and __init__ runs
\* again on it: new queues, a new event, thread = None, start_thread().  A call
\* still waiting on the old response queue can only time out.
MainConstruct ==
    /\ variant = "main"
    /\ CanStart
    /\ command_queue' = <<>>
    /\ response_queue' = <<>>
    /\ shutdown_event' = FALSE
    /\ thread' = FreshThread
    /\ dispatchers' = [dispatchers EXCEPT ![FreshThread] = NewDispatcher]
    /\ response_for' = <<>>
    /\ calls' = EmptyDict
    /\ UNCHANGED <<pipeVars, objVars, variant, now, nextReq, applied, ovVars, hwnds, next_hwnd, dropped,
                   returned, issued_ids>>

\* a fire-and-forget API call: the tuple is put on the command queue
MainFireAndForget(requests) ==
    /\ variant = "main"
    /\ nextReq <= MaxCmds
    /\ \E r \in requests :
          /\ r.cmd \notin BlockingCalls
          /\ command_queue' = Append(command_queue,
                                     [id |-> nextReq, cmd |-> r.cmd, args |-> r.args])
    /\ nextReq' = nextReq + 1
    /\ UNCHANGED <<pipeVars, objVars, variant, now, shutdown_event, applied, ovVars, mainVars>>

\* create_elapsed_time_window, take_break, cancel_break up to the wait:
\* (start_thread() for create_elapsed_time_window,) put the tuple, then
\* response_queue.get(timeout=5.0).  The blocking calls are made one at a time
\* (the shared response queue has no other use): a call starts when none waits.
MainBlockingCall(requests) ==
    /\ variant = "main"
    /\ nextReq <= MaxCmds
    /\ DOMAIN calls = {}
    /\ \E r \in requests :
          /\ r.cmd \in BlockingCalls
          /\ command_queue' = Append(command_queue,
                                     [id |-> nextReq, cmd |-> r.cmd, args |-> r.args])
          /\ calls' = DictPut(calls, nextReq, r.cmd)
          /\ IF r.cmd = "create_elapsed" /\ NeedsThread
             THEN /\ CanStart
                  /\ thread' = FreshThread
                  /\ dispatchers' = [dispatchers EXCEPT ![FreshThread] = NewDispatcher]
             ELSE UNCHANGED <<thread, dispatchers>>
    /\ nextReq' = nextReq + 1
    /\ UNCHANGED <<pipeVars, objVars, variant, now, shutdown_event, applied, ovVars, response_queue, hwnds,
                   next_hwnd, dropped, returned, response_for, issued_ids>>

\* blocking calls that report success when no response arrives
ReturnValueOptimistic(call, response) ==
    IF call = "create_elapsed" THEN response ELSE TRUE

\* what a blocking call returns on a response, or on queue.Empty (the response
\* "Empty"): create_elapsed_time_window returns ElapsedTimeWindowControl(response),
\* whatever the response is, or None; the others return a boolean
ReturnValue(call, response) ==
    CASE call = "create_elapsed" -> IF response.r = "Empty" THEN Response("None", 0) ELSE response
      [] call = "take_break" -> response.r = "break_started"
      [] call = "cancel_break" -> response.r = "break_canceled"

\* response_queue.get returns the oldest response to the waiting call i, which returns
MainCallGets(i) ==
    /\ variant = "main"
    /\ response_queue # <<>>
    /\ i \in DOMAIN calls
    /\ calls' = DictDel(calls, i)
    /\ response_queue' = Tail(response_queue)
    /\ response_for' = Tail(response_for)
    /\ returned' = DictPut(returned, i, [call |-> calls[i],
                                         value |-> ReturnValue(calls[i], Head(response_queue))])
    /\ UNCHANGED <<pipeVars, objVars, variant, now, nextReq, command_queue, shutdown_event, applied, ovVars,
                   thread, dispatchers, hwnds, next_hwnd, dropped, issued_ids>>

\* response_queue.get raises queue.Empty after the 5.0 s, and the call i returns
MainCallTimesOut(i) ==
    /\ variant = "main"
    /\ response_queue = <<>>
    /\ i \in DOMAIN calls
    /\ calls' = DictDel(calls, i)
    /\ returned' = DictPut(returned, i, [call |-> calls[i],
                                         value |-> ReturnValue(calls[i], Response("Empty", 0))])
    /\ UNCHANGED <<pipeVars, objVars, variant, now, nextReq, command_queue, shutdown_event, applied, ovVars,
                   response_queue, thread, dispatchers, hwnds, next_hwnd, dropped,
                   response_for, issued_ids>>

\* one iteration of _run_manager_thread of thread d with a request in the queue.
\* Once the event is set the loop ends at its next test (MainManagerThreadExit),
\* unless the thread is in get and receives the sentinel.
MainManagerThread(d) ==
    /\ variant = "main"
    /\ Running(d)
    /\ command_queue # <<>>
    /\ ~shutdown_event \/ Head(command_queue).cmd = "None"
    /\ StoreM(d, ManagerIteration(ThisM(d), Head(command_queue), now))
    /\ response_for' = IF Len(response_queue') > Len(response_queue)
                       THEN Append(response_for, Head(command_queue).id)
                       ELSE response_for
    /\ command_queue' = Tail(command_queue)
    /\ UNCHANGED <<pipeVars, objVars, variant, now, nextReq, shutdown_event, ovVars, thread, calls, returned>>

\* win32gui.PumpWaitingMessages() in thread d (in a break, or when the queue is
\* empty): a WM_TIMER of one of the thread's windows is handled
MainPumpMessages(d) ==
    /\ variant = "main"
    /\ Running(d)
    /\ InBreak(now, dispatchers[d].break_until) \/ command_queue = <<>>
    /\ \E hwnd \in DOMAIN hwnds :
          /\ hwnds[hwnd].owner = d
          /\ now >= hwnds[hwnd].next_timer
          /\ StoreM(d, OnTimer(ThisM(d), hwnd, now))
    /\ UNCHANGED <<pipeVars, objVars, variant, now, nextReq, command_queue, shutdown_event, ovVars, thread, calls,
                   returned, response_for>>

\* `while not self.shutdown_event.is_set()` turns false in thread d
MainManagerThreadExit(d) ==
    /\ variant = "main"
    /\ Running(d)
    /\ shutdown_event
    /\ StoreM(d, Finally(ThisM(d)))
    /\ UNCHANGED <<pipeVars, objVars, variant, now, nextReq, command_queue, shutdown_event, ovVars, thread, calls,
                   returned, response_for>>

\* OverlayManager.shutdown() of main.py: the event is set and, if the thread is
\* alive, the sentinel is put and thread is None after the bounded join
MainShutdown ==
    /\ variant = "main"
    /\ ~shutdown_event
    /\ shutdown_event' = TRUE
    /\ command_queue' = IF thread # 0 /\ Running(thread)
                        THEN Append(command_queue, NoneRequest) ELSE command_queue
    /\ thread' = IF thread # 0 /\ Running(thread) THEN 0 ELSE thread
    /\ UNCHANGED <<pipeVars, objVars, variant, now, nextReq, applied, ovVars, response_queue, dispatchers,
                   hwnds, next_hwnd, calls, dropped, returned, response_for, issued_ids>>

\* ------------------------------------------------------------ the pipe listener
(* _run_pipe_server and _handle_pipe_client of either program.  pipe_thread is
   "none" (not started), "accept" (a pipe is created and the thread is in
   ConnectNamedPipe), "serving" (in _handle_pipe_client, in ReadFile),
   "exited" (the loop ended on the shutdown event) or "dead" (an exception
   ended the thread function).  A message is a record: json says whether
   json.loads accepts it, command is the command name of the decoded object. *)
\* messages a client sends that need no dispatcher: text that is not JSON, and
\* requests with a command name that is not supported
PipeMessages ==
    {[json |-> FALSE, command |-> ""],
     [json |-> TRUE, command |-> "unknown_cmd"],
     [json |-> TRUE, command |-> "shutdown"]}

\* failures of one connection: in ConnectNamedPipe or CreateNamedPipe; and in
\* the client handler: the client is gone (ReadFile has no data), a broken
\* pipe, another error of ReadFile or WriteFile, any other exception
AcceptFailures == {"connect_error", "create_error"}

ClientFailures == {"disconnect", "broken_pipe", "read_error", "write_error", "exception"}

\* f"Unknown command {cmd}" of overlays.py: the literal text and the name
OvUnknownCommand(cmd) == [status |-> "error", message |-> <<"Unknown command", cmd>>]

\* f"Unknown command: {command}" of main.py: the literal text and the name
MainUnknownCommand(cmd) == [status |-> "error", message |-> <<"Unknown command:", cmd>>]

\* _process_pipe_command for a command name that is not supported
ProcessUnknown(cmd) ==
    IF variant = "overlays" THEN OvUnknownCommand(cmd) ELSE MainUnknownCommand(cmd)

\* the reply main.py writes on json.JSONDecodeError
InvalidJson == [error |-> "Invalid JSON"]

\* what _handle_pipe_client writes back for a message, as a sequence (empty:
\* nothing is written).  On invalid JSON main.py writes InvalidJson; in
\* overlays.py the JSONDecodeError leaves _handle_pipe_client through
\* _handle_pipe_errors, which returns the dict to _run_pipe_server: no WriteFile
Written(msg) ==
    IF msg.json THEN <<ProcessUnknown(msg.command)>>
    ELSE IF variant = "main" THEN <<InvalidJson>>
    ELSE <<>>

\* the loop of _run_pipe_server goes round: the handle is closed, and the thread
\* creates a pipe and accepts again unless the shutdown event is set
PipeLoops == IF shutdown_event THEN "exited" ELSE "accept"

\* the state of the listener after a message: _handle_pipe_client reads on,
\* except that in overlays.py invalid JSON ends the handler (the connection is closed)
AfterMessage(msg) ==
    IF ~msg.json /\ variant = "overlays" THEN PipeLoops
    ELSE IF shutdown_event THEN "exited"
    ELSE "serving"

\* a client connects: ConnectNamedPipe returns, _handle_pipe_client starts;
\* its loop does not start if the shutdown event is set
PipeClientConnects ==
    /\ pipe_thread = "accept"
    /\ pipe_thread' = IF shutdown_event THEN "exited" ELSE "serving"
    /\ UNCHANGED <<pipe_log, objVars, variant, now, nextReq, command_queue, shutdown_event, applied,
                   ovVars, mainVars>>

\* CreateNamedPipe or ConnectNamedPipe raises: main.py catches it in the loop;
\* in overlays.py the try in the loop has only a finally, so the exception
\* leaves the loop and _handle_pipe_errors ends the thread function
PipeAcceptFails(kind) ==
    /\ pipe_thread = "accept"
    /\ kind \in AcceptFailures
    /\ pipe_thread' = IF variant = "overlays" THEN "dead" ELSE PipeLoops
    /\ UNCHANGED <<pipe_log, objVars, variant, now, nextReq, command_queue, shutdown_event, applied,
                   ovVars, mainVars>>

\* a failure inside _handle_pipe_client: the handler returns (break, or the
\* exception is caught by the handler or its decorator) and the loop goes round
PipeClientFails(kind) ==
    /\ pipe_thread = "serving"
    /\ kind \in ClientFailures
    /\ pipe_thread' = PipeLoops
    /\ UNCHANGED <<pipe_log, objVars, variant, now, nextReq, command_queue, shutdown_event, applied,
                   ovVars, mainVars>>

\* ReadFile returns a message: it is decoded, processed and answered
PipeMessage(msg) ==
    /\ pipe_thread = "serving"
    /\ nextReq <= MaxCmds
    /\ nextReq' = nextReq + 1
    /\ pipe_log' = Append(pipe_log, [msg |-> msg, written |-> Written(msg)])
    /\ pipe_thread' = AfterMessage(msg)
    /\ UNCHANGED <<objVars, variant, now, command_queue, shutdown_event, applied, ovVars, mainVars>>

\* shutdown() of either program
Shutdown == OvShutdown \/ MainShutdown

PipeNext ==
    \/ OvStart
    \/ Shutdown
    \/ PipeClientConnects
    \/ \E kind \in AcceptFailures : PipeAcceptFails(kind)
    \/ \E kind \in ClientFailures : PipeClientFails(kind)
    \/ \E msg \in PipeMessages : PipeMessage(msg)

\* ------------------------------------------------------------ main.py: ElapsedTimeWindow
\* the calls on_timer may take in one behaviour
MaxTicks == 4

\* no ElapsedTimeWindow has been constructed
NoWindow ==
    [constructed |-> FALSE, message_text |-> "", elapsed_seconds |-> 0, running |-> FALSE,
     hwnd |-> 0, timer |-> FALSE, stopped |-> FALSE, ticks |-> 0, calls |-> <<>>]

\* ElapsedTimeWindow.__init__; stopped and ticks are history, calls are the
\* win32gui calls the methods made
ElapsedTimeWindow(message_text) ==
    [constructed |-> TRUE, message_text |-> message_text, elapsed_seconds |-> 0,
     running |-> TRUE, hwnd |-> 0, timer |-> FALSE, stopped |-> FALSE, ticks |-> 0,
     calls |-> <<>>]

\* an on_timer that counts whether or not the window runs
on_timer_always(w) ==
    [w EXCEPT !.elapsed_seconds = @ + 1, !.calls = Append(@, "InvalidateRect")]

\* ElapsedTimeWindow.on_timer
on_timer(w) ==
    IF w.running
    THEN [w EXCEPT !.elapsed_seconds = @ + 1, !.calls = Append(@, "InvalidateRect")]
    ELSE [w EXCEPT !.calls = Append(@, "PostMessage WM_CLOSE")]

\* ElapsedTimeWindow.stop
stop(w) == [w EXCEPT !.running = FALSE]

\* ElapsedTimeWindow.update_message
update_message(w, new_message) ==
    [w EXCEPT !.message_text = new_message,
              !.calls = IF w.hwnd # 0 THEN Append(@, "InvalidateRect") ELSE @]

\* everything but the two objects
progVars == <<variant, now, nextReq, command_queue, shutdown_event, applied, ovVars, mainVars,
              pipeVars>>

EtwConstruct ==
    /\ variant = "main"
    /\ ~etw.constructed
    /\ \E message_text \in {"m", "n"} : etw' = ElapsedTimeWindow(message_text)
    /\ UNCHANGED <<progVars, gdi>>

\* ElapsedTimeWindow.create_window: the window exists and its timer is set
EtwCreateWindow ==
    /\ etw.constructed
    /\ etw.hwnd = 0
    /\ etw' = [etw EXCEPT !.hwnd = 1, !.timer = TRUE]
    /\ UNCHANGED <<progVars, gdi>>

\* WM_TIMER reaches wnd_proc
EtwOnTimer ==
    /\ etw.timer
    /\ etw.ticks < MaxTicks
    /\ etw' = [on_timer(etw) EXCEPT !.ticks = @ + 1]
    /\ UNCHANGED <<progVars, gdi>>

EtwStop ==
    /\ etw.constructed
    /\ etw' = [stop(etw) EXCEPT !.stopped = TRUE]
    /\ UNCHANGED <<progVars, gdi>>

EtwUpdateMessage ==
    /\ etw.constructed
    /\ etw.message_text # "x"
    /\ etw' = update_message(etw, "x")
    /\ UNCHANGED <<progVars, gdi>>

\* the posted WM_CLOSE reaches DefWindowProc: the window and its timer are gone
EtwClose ==
    /\ etw.timer
    /\ \E k \in 1..Len(etw.calls) : etw.calls[k] = "PostMessage WM_CLOSE"
    /\ etw' = [etw EXCEPT !.timer = FALSE]
    /\ UNCHANGED <<progVars, gdi>>

ElapsedNext ==
    \/ EtwConstruct
    \/ EtwCreateWindow
    \/ EtwOnTimer
    \/ EtwStop
    \/ EtwUpdateMessage
    \/ EtwClose

\* ------------------------------------------------------------ helpers.py: GDIContext
\* handles are names; "None" is Python's None and "NULL" the handle 0
IsHandle(h) == h \notin {"None", "NULL"}

\* no GDIContext has been constructed
NoContext ==
    [state |-> "none", pen |-> "None", brush |-> "None", font |-> "None",
     old_pen |-> "None", old_brush |-> "None", old_font |-> "None",
     exc |-> FALSE, enter_len |-> 0, calls |-> <<>>]

\* GDIContext.__init__
GDIContext(pen, brush, font) ==
    [NoContext EXCEPT !.state = "created", !.pen = pen, !.brush = brush, !.font = font]

SelectObject(obj) == [fn |-> "SelectObject", obj |-> obj]

DeleteObject(obj) == [fn |-> "DeleteObject", obj |-> obj]

\* GDIContext.__enter__; previous is what each SelectObject call returns
__enter__(g, previous) ==
    [g EXCEPT !.old_pen = IF IsHandle(g.pen) THEN previous.pen ELSE @,
              !.old_brush = IF IsHandle(g.brush) THEN previous.brush ELSE @,
              !.old_font = IF IsHandle(g.font) THEN previous.font ELSE @,
              !.calls = @ \o (IF IsHandle(g.pen) THEN <<SelectObject(g.pen)>> ELSE <<>>)
                          \o (IF IsHandle(g.brush) THEN <<SelectObject(g.brush)>> ELSE <<>>)
                          \o (IF IsHandle(g.font) THEN <<SelectObject(g.font)>> ELSE <<>>)]

\* a clean-up that restores a previous object only if it is truthy
ReleaseTruthy(obj, old) ==
    IF IsHandle(obj)
    THEN (IF IsHandle(old) THEN <<SelectObject(old)>> ELSE <<>>) \o <<DeleteObject(obj)>>
    ELSE <<>>

\* the calls __exit__ makes for one kind of object
Release(obj, old) ==
    IF IsHandle(obj)
    THEN (IF old # "None" THEN <<SelectObject(old)>> ELSE <<>>) \o <<DeleteObject(obj)>>
    ELSE <<>>

\* GDIContext.__exit__
__exit__(g) ==
    [g EXCEPT !.calls = @ \o Release(g.pen, g.old_pen)
                          \o Release(g.brush, g.old_brush)
                          \o Release(g.font, g.old_font)]

\* what SelectObject may return for an object of a kind
Previous(kind) == {"None", "NULL", kind}

GdiConstruct ==
    /\ gdi.state = "none"
    /\ \E pen \in {"None", "pen"}, brush \in {"None", "brush"}, font \in {"None", "font"} :
          gdi' = GDIContext(pen, brush, font)
    /\ UNCHANGED <<progVars, etw>>

\* the with statement enters the context
GdiEnter ==
    /\ gdi.state = "created"
    /\ \E previous \in [pen : Previous("old_pen"), brush : Previous("old_brush"),
                        font : Previous("old_font")] :
          LET g == __enter__(gdi, previous)
          IN  gdi' = [g EXCEPT !.state = "entered", !.enter_len = Len(g.calls)]
    /\ UNCHANGED <<progVars, etw>>

\* the body of the with statement raises
GdiBodyRaises ==
    /\ gdi.state = "entered"
    /\ ~gdi.exc
    /\ gdi' = [gdi EXCEPT !.exc = TRUE]
    /\ UNCHANGED <<progVars, etw>>

\* the with statement leaves the context, with or without an exception
GdiExit ==
    /\ gdi.state = "entered"
    /\ gdi' = [__exit__(gdi) EXCEPT !.state = "exited"]
    /\ UNCHANGED <<progVars, etw>>

GdiNext ==
    \/ GdiConstruct
    \/ GdiEnter
    \/ GdiBodyRaises
    \/ GdiExit

\* ------------------------------------------------------------ specification
Init ==
    /\ variant \in {"overlays", "main"}
    /\ now = 0
    /\ nextReq = 1
    /\ command_queue = <<>>
    /\ shutdown_event = FALSE
    /\ applied = <<>>
    /\ _threads = FALSE
    /\ cmd_thread = "none"
    /\ _break_until = 0
    /\ _pending_commands = <<>>
    /\ rectangles = <<>>
    /\ countdowns = EmptyDict
    /\ qrcodes = EmptyDict
    /\ _next_rect_id = 1
    /\ _next_countdown_id = 1
    /\ _next_qrcode_id = 1
    /\ _qrcode_order = 0
    /\ _countdown_order = 0
    /\ timers = {}
    /\ removing = {}
    /\ reply_queue = [i \in 1..MaxCmds |-> <<>>]
    /\ response_queue = <<>>
    /\ thread = IF variant = "main" THEN 1 ELSE 0
    /\ dispatchers = [d \in 1..MaxThreads |->
                         IF variant = "main" /\ d = 1 THEN NewDispatcher ELSE NoDispatcher]
    /\ hwnds = EmptyDict
    /\ next_hwnd = 1
    /\ calls = EmptyDict
    /\ dropped = {}
    /\ pipe_thread = IF variant = "main" THEN "accept" ELSE "none"
    /\ pipe_log = <<>>
    /\ returned = EmptyDict
    /\ response_for = <<>>
    /\ issued_ids = <<>>
    /\ etw = NoWindow
    /\ gdi = NoContext

\* overlays.py: clients, the command thread, the timer threads, the countdown thread
OvNext ==
    \/ OvStart
    \/ OvProcessPipeCommand(OvBreakRequests)
    \/ OvCommandThread
    \/ OvTimerFires
    \/ OvCountdownManager

\* main.py: API callers and the manager thread with its message pump
MainNext ==
    \/ MainFireAndForget(MainBreakRequests)
    \/ MainBlockingCall(MainBreakRequests)
    \/ \E i \in 1..MaxCmds : MainCallGets(i)
    \/ \E i \in 1..MaxCmds : MainCallTimesOut(i)
    \/ \E d \in 1..MaxThreads : MainManagerThread(d)
    \/ \E d \in 1..MaxThreads : MainPumpMessages(d)

Next == Tick \/ OvNext \/ MainNext

\* either program, its clients sending commands around breaks
Spec == Init /\ [][Next]_vars

\* overlays.py alone
OvInit == Init /\ variant = "overlays"

SpecOverlays == OvInit /\ [][Tick \/ OvNext]_vars

\* overlays.py with its threads and the clock running on: the command thread,
\* the timer threads and the countdown thread are scheduled; clients need not send
FairSpecOverlays ==
    /\ SpecOverlays
    /\ WF_vars(Tick)
    /\ WF_vars(OvCommandThread)
    /\ WF_vars(OvTimerFires)
    /\ WF_vars(OvCountdownManager)

\* main.py alone
MainInit == Init /\ variant = "main"

SpecMain == MainInit /\ [][Tick \/ MainNext]_vars

\* requests sent while managers are constructed, started and shut down
OvLifecycleRequests ==
    {[cmd |-> "create_highlight", args |-> [rect |-> <<1, 2, 3, 4>>, timeout_seconds |-> 1]],
     [cmd |-> "create_countdown", args |-> [message_text |-> "m", countdown_seconds |-> 1]]}

MainLifecycleRequests ==
    {[cmd |-> "create_elapsed", args |-> <<"m">>],
     [cmd |-> "close_window", args |-> <<1>>]}

\* construction, start and shutdown of the threads of either program
LifecycleNext ==
    \/ Tick
    \/ OvStart
    \/ OvShutdown
    \/ OvProcessPipeCommand(OvLifecycleRequests)
    \/ OvCommandThread
    \/ OvCommandThreadExit
    \/ OvTimerFires
    \/ OvCountdownManager
    \/ MainConstruct
    \/ MainShutdown
    \/ MainFireAndForget(MainLifecycleRequests)
    \/ MainBlockingCall(MainLifecycleRequests)
    \/ \E i \in 1..MaxCmds : MainCallGets(i)
    \/ \E i \in 1..MaxCmds : MainCallTimesOut(i)
    \/ \E d \in 1..MaxThreads : MainManagerThread(d)
    \/ \E d \in 1..MaxThreads : MainPumpMessages(d)
    \/ \E d \in 1..MaxThreads : MainManagerThreadExit(d)

SpecLifecycle == Init /\ [][LifecycleNext]_vars

\* the listener of either program and its clients
SpecPipe == Init /\ [][PipeNext]_vars

\* overlays.py with the callers of _process_pipe_command, any number of them
\* waiting at a time, each returning on its reply or on its timeout
OvCallerRequests ==
    {[cmd |-> "create_countdown", args |-> [message_text |-> "m", countdown_seconds |-> 1]],
     [cmd |-> "take_break", args |-> [duration_seconds |-> 1]]}

OvCallersNext ==
    \/ Tick
    \/ OvStart
    \/ OvProcessPipeCommand(OvCallerRequests)
    \/ OvCommandThread
    \/ OvCountdownManager
    \/ \E i \in 1..MaxCmds : OvCallGets(i)
    \/ \E i \in 1..MaxCmds : OvCallTimesOut(i)

SpecOvCallers == OvInit /\ [][OvCallersNext]_vars

\* the blocking API calls of main.py made by one caller
MainCallerRequests ==
    {[cmd |-> "create_elapsed", args |-> <<"m">>],
     [cmd |-> "take_break", args |-> <<1>>],
     [cmd |-> "cancel_break", args |-> <<>>]}

MainCallersNext ==
    \/ Tick
    \/ MainBlockingCall(MainCallerRequests)
    \/ \E i \in 1..MaxCmds : MainCallGets(i)
    \/ \E i \in 1..MaxCmds : MainCallTimesOut(i)
    \/ \E d \in 1..MaxThreads : MainManagerThread(d)
    \/ \E d \in 1..MaxThreads : MainPumpMessages(d)

\* either program with the callers that wait for a reply
SpecCallers == Init /\ [][OvCallersNext \/ MainCallersNext]_vars

\* the waits are bounded: a waiting call returns, on its reply or on its timeout
FairSpecCallers ==
    /\ SpecCallers
    /\ \A i \in 1..MaxCmds : WF_vars(OvCallGets(i) \/ OvCallTimesOut(i))
    /\ \A i \in 1..MaxCmds : WF_vars(MainCallGets(i) \/ MainCallTimesOut(i))

\* ------------------------------------------------------------ properties
\* what is drawn and the counters behind the ids and the stacking (overlays.py)
OverlayState ==
    <<rectangles, countdowns, qrcodes, _next_rect_id, _next_countdown_id,
      _next_qrcode_id, _qrcode_order, _countdown_order>>

\* the step takes the request at the head of the command queue (overlays.py)
OvDequeues ==
    /\ variant = "overlays"
    /\ command_queue # <<>>
    /\ command_queue' = Tail(command_queue)

\* the step takes the request at the head of the command queue (main.py)
MainDequeues ==
    /\ variant = "main"
    /\ command_queue # <<>>
    /\ command_queue' = Tail(command_queue)
    /\ thread' = thread

\* overlays.py is in a break: a deadline is set and lies ahead
OvPaused == _break_until # 0 /\ now < _break_until

\* the history entry of a request
Entry(req) == [id |-> req.id, cmd |-> req.cmd]

\* the history entries of a sequence of requests
Entries(reqs) == [i \in 1..Len(reqs) |-> Entry(reqs[i])]

\* what the step appended to the history `applied`
NewlyApplied == SubSeq(applied', Len(applied) + 1, Len(applied'))

C3_Dropped ==
    /\ [][\A d \in 1..MaxThreads :
            (/\ MainDequeues
             /\ Running(d)
             /\ now < dispatchers[d].break_until
             /\ Head(command_queue).cmd \notin {"cancel_break", "None"})
            => (/\ hwnds' = hwnds
                /\ dispatchers' = dispatchers
                /\ response_queue' = response_queue
                /\ applied' = applied
                /\ Entry(Head(command_queue)) \in dropped')]_vars
    /\ [](\A i \in 1..Len(applied) : applied[i] \notin dropped)

\* a create_elapsed was dropped, the break is over and the queue is empty
C3_Witness ==
    /\ variant = "main"
    /\ \E r \in dropped : r.cmd = "create_elapsed"
    /\ \A d \in 1..MaxThreads : Running(d) => now >= dispatchers[d].break_until
    /\ command_queue = <<>>

\* C4 (as claimed): cancel_break in a break of overlays.py with buffered
\* commands resets the deadline, is acknowledged, and the buffered commands
\* are executed in arrival order.
C4_CancelReplays ==
    [][(/\ OvDequeues
        /\ OvPaused
        /\ Head(command_queue).cmd = "cancel_break"
        /\ _pending_commands # <<>>)
       => (/\ _break_until' = 0
           /\ reply_queue'[Head(command_queue).id]
                = <<[status |-> "success", message |-> <<"Break canceled">>]>>
           /\ SelectSeq(NewlyApplied, LAMBDA e : e.cmd # "cancel_break")
                = Entries(_pending_commands))]_vars

\* C5 (as claimed): when overlays.py handles a dequeued command c (one that
\* executes without an exception) after the deadline has passed, the deadline
\* is 0, the buffered commands were executed in buffering order, the buffer is
\* empty, and c was executed after them.
C5_ExpiryReplays ==
    [][(/\ OvDequeues
        /\ Head(command_queue).cmd \notin {"take_break", "cancel_break"}
        /\ ~Execute(ThisOm, Head(command_queue), now).raised
        /\ _break_until # 0
        /\ now >= _break_until)
       => (/\ _break_until' = 0
           /\ _pending_commands' = <<>>
           /\ NewlyApplied = Append(Entries(_pending_commands), Entry(Head(command_queue))))]_vars

\* request k waits in the pending buffer
Buffered(k) == \E i \in 1..Len(_pending_commands) : _pending_commands[i].id = k

\* request k has been executed
WasApplied(k) == \E i \in 1..Len(applied) : applied[i].id = k

\* C6 (as claimed): a command buffered in a break of overlays.py is executed
\* once the deadline has passed, as long as the command thread runs, also when
\* no further command is enqueued.
C6_BufferedEventuallyExecuted ==
    \A k \in 1..MaxCmds :
        [](( /\ variant = "overlays"
             /\ Buffered(k)
             /\ now >= _break_until
             /\ cmd_thread = "running")
           => <>(WasApplied(k) \/ cmd_thread # "running"))

\* the acknowledgement of take_break by overlays.py
OvBreakStarted(req) ==
    [status |-> "success",
     message |-> <<"Break started for", req.args.duration_seconds, "seconds">>]

\* overlays.py sets the deadline and acknowledges the take_break at the head
OvTakesBreak ==
    /\ _break_until' = now + Head(command_queue).args.duration_seconds
    /\ reply_queue' = [reply_queue EXCEPT ![Head(command_queue).id] =
                          Append(@, OvBreakStarted(Head(command_queue)))]

\* thread d of main.py sets its deadline and acknowledges the take_break at
\* the head; a take_break() that waits alone on an empty queue returns True
MainTakesBreak(d) ==
    /\ dispatchers'[d].break_until = now + Head(command_queue).args[1]
    /\ response_queue' = Append(response_queue, Response("break_started", 0))
    /\ (response_queue = <<>> /\ DOMAIN calls = {Head(command_queue).id})
         => ReturnValue("take_break", Head(response_queue')) = TRUE

\* C7 (as claimed): a dequeued take_break(duration) sets the deadline to
\* now + duration and is acknowledged, in either state, in both programs.
C7_TakeBreakAlways ==
    [][/\ (OvDequeues /\ Head(command_queue).cmd = "take_break") => OvTakesBreak
       /\ \A d \in 1..MaxThreads :
             (MainDequeues /\ Running(d) /\ Head(command_queue).cmd = "take_break")
                => MainTakesBreak(d)]_vars

\* C7 (amended): a dequeued take_break(duration) sets the deadline to
\* now + duration, replacing an earlier one, and is acknowledged: in
\* overlays.py in either state, in main.py when no break is active; in a break
\* main.py discards it: the deadline stays and nothing is acknowledged.
C7_TakeBreak ==
    [][/\ (OvDequeues /\ Head(command_queue).cmd = "take_break") => OvTakesBreak
       /\ \A d \in 1..MaxThreads :
             (MainDequeues /\ Running(d) /\ Head(command_queue).cmd = "take_break")
                => IF now >= dispatchers[d].break_until
                   THEN MainTakesBreak(d)
                   ELSE /\ dispatchers' = dispatchers
                        /\ response_queue' = response_queue]_vars

\* overlays.py is in a break, with a command buffered, after two take_breaks
C7_Witness ==
    /\ variant = "overlays"
    /\ OvPaused
    /\ _pending_commands # <<>>
    /\ \E i, j \in 1..Len(applied) :
          i < j /\ applied[i].cmd = "take_break" /\ applied[j].cmd = "take_break"

\* C8: a cancel_break dequeued while no break is active is acknowledged with
\* success and changes no overlay: overlays.py replies "Break canceled",
\* main.py puts break_canceled on the response queue, so that a cancel_break()
\* waiting alone on an empty response queue returns True.
C8_CancelWithoutBreak ==
    [][/\ (OvDequeues /\ ~OvPaused /\ Head(command_queue).cmd = "cancel_break")
            => (/\ reply_queue' = [reply_queue EXCEPT ![Head(command_queue).id] =
                       Append(@, [status |-> "success", message |-> <<"Break canceled">>])]
                /\ UNCHANGED OverlayState)
       /\ \A d \in 1..MaxThreads :
             (/\ MainDequeues
              /\ Running(d)
              /\ now >= dispatchers[d].break_until
              /\ Head(command_queue).cmd = "cancel_break")
             => (/\ response_queue' = Append(response_queue, Response("break_canceled", 0))
                 /\ hwnds' = hwnds
                 /\ dispatchers' = dispatchers
                 /\ (response_queue = <<>> /\ DOMAIN calls = {Head(command_queue).id})
                      => ReturnValue("cancel_break", Head(response_queue')) = TRUE)]_vars

\* main.py applied a cancel_break last, never took a break, and has a window
C8_Witness ==
    /\ variant = "main"
    /\ applied # <<>>
    /\ applied[Len(applied)].cmd = "cancel_break"
    /\ \A i \in 1..Len(applied) : applied[i].cmd # "take_break"
    /\ DOMAIN hwnds # {}

\* C9 (as claimed): at any time at most one live dispatcher thread consumes
\* the command queue.
C9_SingleDispatcher ==
    /\ Cardinality({d \in 1..MaxThreads : Running(d)}) <= 1
    /\ cmd_thread = "running" => _threads

\* C10 (as claimed): overlays are written only by the dispatcher thread: in
\* overlays.py a step that changes rectangles, countdowns or qrcodes is a step
\* of the command thread, in main.py a step that changes a window or a
\* thread's window_map or active_windows is a step of that manager thread.
C10_DispatcherOnly ==
    [][/\ (rectangles' # rectangles \/ countdowns' # countdowns \/ qrcodes' # qrcodes)
            => OvCommandThread
       /\ (hwnds' # hwnds \/ dispatchers' # dispatchers)
            => \E d \in 1..MaxThreads : MainManagerThread(d) \/ MainPumpMessages(d)]_vars

\* the ids overlays.py returned in the replies to the executed commands `cmds`,
\* in execution order
OvIssuedIds(cmds) ==
    LET es == SelectSeq(applied, LAMBDA e : e.cmd \in cmds)
    IN  [i \in 1..Len(es) |-> reply_queue[es[i].id][1].window_id]

\* a sequence of ids that starts at 1 and strictly increases
IncreasingFromOne(ids) ==
    /\ ids # <<>> => ids[1] = 1
    /\ \A i, j \in 1..Len(ids) : i < j => ids[i] < ids[j]

\* C11 (as claimed): the ids returned within one category (rectangles;
\* countdown/elapsed; QR codes in overlays.py, elapsed windows in main.py)
\* start at 1, strictly increase in application order and are never returned
\* twice.
C11_IdsIncrease ==
    /\ variant = "overlays"
         => /\ IncreasingFromOne(OvIssuedIds({"create_highlight"}))
            /\ IncreasingFromOne(OvIssuedIds({"create_countdown", "create_elapsed_time"}))
            /\ IncreasingFromOne(OvIssuedIds({"create_qrcode_window"}))
    /\ variant = "main" => IncreasingFromOne(issued_ids)

\* the call of request i returns in this step with the oldest response of the
\* response queue (main.py)
MainCallReceives(i) ==
    /\ variant = "main"
    /\ i \in DOMAIN calls
    /\ i \in DOMAIN returned' /\ i \notin DOMAIN returned
    /\ response_queue # <<>>
    /\ response_queue' = Tail(response_queue)

\* C12 (as claimed): in main.py, with the blocking calls issued strictly one at
\* a time (a call starts after the previous one returned, possibly by timeout),
\* the response a call consumes is the one the dispatcher produced for that
\* call's own command, and the control create_elapsed_time_window returns
\* carries the id assigned to its own window.
C12_OwnResponse ==
    [][\A i \in 1..MaxCmds :
          MainCallReceives(i)
            => /\ Head(response_for) = i
               /\ calls[i] = "create_elapsed"
                    => /\ returned'[i].value.r = "window_id"
                       /\ \E h \in DOMAIN hwnds :
                             \E d \in 1..MaxThreads :
                                /\ returned'[i].value.window_id \in DOMAIN dispatchers[d].window_map
                                /\ dispatchers[d].window_map[returned'[i].value.window_id] = h]_vars

\* the reply is one that the command `cmd` of overlays.py produces
ReplyFits(cmd, reply) ==
    /\ reply.status = "success"
    /\ CASE cmd = "take_break" -> reply.message[1] = "Break started for"
         [] cmd = "cancel_break" -> reply.message = <<"Break canceled">>
         [] cmd \in {"close_window", "update_window_message"} -> reply.message[1] = "Window"
         [] OTHER -> "window_id" \in DOMAIN reply

\* C13: in overlays.py, with any number of callers of _process_pipe_command
\* waiting at the same time, the dispatcher puts a reply only on the reply
\* queue of the request it has just executed, one reply per executed request;
\* a caller returns the reply from its own request's queue or the timeout
\* error, so a reply put after its caller timed out is received by nobody.
C13_OwnReplyQueue ==
    /\ [][variant = "overlays"
            => \A k \in 1..MaxCmds :
                  reply_queue'[k] # reply_queue[k]
                    => /\ \E j \in 1..Len(NewlyApplied) :
                             /\ NewlyApplied[j].id = k
                             /\ ReplyFits(NewlyApplied[j].cmd, reply_queue'[k][Len(reply_queue'[k])])
                       /\ Len(reply_queue'[k]) = Len(reply_queue[k]) + 1]_vars
    /\ [](variant = "overlays"
            => \A i \in DOMAIN returned :
                  \/ returned[i].value = OvTimedOut
                  \/ /\ WasApplied(i)
                     /\ reply_queue[i] # <<>>
                     /\ returned[i].value = reply_queue[i][1]
                     /\ ReplyFits(returned[i].call, returned[i].value))

\* a call timed out, its reply was put later, and a later request's caller
\* returned its own success reply
C13_Witness ==
    /\ variant = "overlays"
    /\ \E i, j \in DOMAIN returned :
          /\ i < j
          /\ returned[i].value = OvTimedOut
          /\ reply_queue[i] # <<>>
          /\ returned[j].value # OvTimedOut
          /\ returned[j].value = reply_queue[j][1]

\* the call of request i returns in this step without a reply (queue.Empty)
CallTimesOut(i) ==
    /\ i \in DOMAIN calls
    /\ i \in DOMAIN returned' /\ i \notin DOMAIN returned
    /\ IF variant = "main" THEN response_queue = <<>> ELSE reply_queue[i] = <<>>

\* what a call returns when no reply arrived
TimeoutValue(i) ==
    IF variant = "overlays" THEN OvTimedOut
    ELSE IF calls[i] = "create_elapsed" THEN Response("None", 0)
    ELSE FALSE

\* C14: a blocking call with no reply returns after its bounded wait:
\* create_elapsed_time_window None, take_break and cancel_break False
\* (main.py), _process_pipe_command the error 'Command timed out'
\* (overlays.py); the command stays enqueued, nothing else changes, and no
\* call waits forever.
C14_TimeoutReturns ==
    /\ [][\A i \in 1..MaxCmds :
            CallTimesOut(i)
              => /\ returned'[i].value = TimeoutValue(i)
                 /\ UNCHANGED <<command_queue, OverlayState, _break_until, _pending_commands,
                                reply_queue, response_queue, dispatchers, hwnds, applied>>]_vars
    /\ \A i \in 1..MaxCmds : [](i \in DOMAIN calls => <>(i \in DOMAIN returned))

\* a call of main.py returned False by timeout and its command is still enqueued
C14_Witness ==
    /\ variant = "main"
    /\ \E i \in DOMAIN returned :
          /\ returned[i].call = "take_break"
          /\ returned[i].value = FALSE
          /\ \E k \in 1..Len(command_queue) : command_queue[k].id = i

\* the step reads a message from the client: its entry in the log
MessageRead == Len(pipe_log') = Len(pipe_log) + 1

LastMessage == pipe_log'[Len(pipe_log')]

\* C15 (as claimed): a request with an unsupported command name is answered
\* with {status: 'error', message: 'Unknown command <name>'}, exactly this
\* text with the received name, nothing is put on the command queue, and
\* overlay and break state are unchanged.
C15_UnknownCommand ==
    [][(MessageRead /\ LastMessage.msg.json /\ LastMessage.msg.command \notin COMMANDS)
         => /\ LastMessage.written
                 = <<[status |-> "error",
                      message |-> <<"Unknown command", LastMessage.msg.command>>]>>
            /\ UNCHANGED <<command_queue, OverlayState, _break_until, _pending_commands,
                           dispatchers, hwnds>>]_vars

\* C16 (as claimed): a request that is not JSON is answered with a reply that
\* has the status field with value 'error', and the listener keeps the
\* connection and reads the client's next request.
C16_InvalidJsonAnswered ==
    [][(MessageRead /\ ~LastMessage.msg.json)
         => /\ Len(LastMessage.written) = 1
            /\ "status" \in DOMAIN LastMessage.written[1]
            /\ LastMessage.written[1].status = "error"
            /\ ~shutdown_event => pipe_thread' = "serving"]_vars

\* C17 (as claimed): after a failure of one connection (in connect or create,
\* a disconnect, a broken pipe, a read or write error, an exception in the
\* handler), while shutdown is not requested, the listener is back in accept;
\* no such failure ends the listener thread.
C17_ListenerReaccepts ==
    /\ [][(/\ ~shutdown_event
           /\ \/ \E kind \in AcceptFailures : PipeAcceptFails(kind)
              \/ \E kind \in ClientFailures : PipeClientFails(kind))
          => pipe_thread' = "accept"]_vars
    /\ [](pipe_thread # "dead")

\* ------------------------------------------------------------ shutdown
\* requests in flight when shutdown() is called: a break and a command behind it
OvShutdownRequests ==
    {[cmd |-> "take_break", args |-> [duration_seconds |-> 1]],
     [cmd |-> "create_countdown", args |-> [message_text |-> "m", countdown_seconds |-> 1]]}

MainShutdownRequests ==
    {[cmd |-> "take_break", args |-> <<1>>],
     [cmd |-> "close_window", args |-> <<1>>]}

\* one manager of either program, started once, used and shut down; the
\* listener stays in accept (no client connects)
ShutdownNext ==
    \/ Tick
    \/ OvStart
    \/ OvShutdown
    \/ OvProcessPipeCommand(OvShutdownRequests)
    \/ OvCommandThread
    \/ OvCommandThreadExit
    \/ MainShutdown
    \/ MainFireAndForget(MainShutdownRequests)
    \/ MainBlockingCall(MainShutdownRequests)
    \/ \E i \in 1..MaxCmds : MainCallGets(i)
    \/ \E i \in 1..MaxCmds : MainCallTimesOut(i)
    \/ \E d \in 1..MaxThreads : MainManagerThread(d)
    \/ \E d \in 1..MaxThreads : MainManagerThreadExit(d)

SpecShutdown == Init /\ [][ShutdownNext]_vars

\* a running dispatcher tests the loop condition again: get returns after at
\* most 0.1 s (main.py) or 1 s (overlays.py) and no handler blocks
FairSpecShutdown ==
    /\ SpecShutdown
    /\ WF_vars(OvCommandThreadExit)
    /\ \A d \in 1..MaxThreads : WF_vars(MainManagerThreadExit(d))

\* no dispatcher loop is running
DispatchersTerminated ==
    /\ cmd_thread # "running"
    /\ \A d \in 1..MaxThreads : ~Running(d)

\* C18: shutdown() sets the shutdown flag and, in main.py with the dispatcher
\* thread alive, puts the None sentinel on the command queue (and nothing
\* otherwise); it does not wait for the listener, which may stay in accept;
\* and once the flag is set every dispatcher loop terminates, whatever state
\* it was in (idle, queue non-empty, in a break).
C18_ShutdownTerminates ==
    /\ [][(~shutdown_event /\ shutdown_event')
            => /\ command_queue'
                    = IF variant = "main" /\ thread # 0 /\ dispatchers[thread].state = "running"
                      THEN Append(command_queue, [id |-> 0, cmd |-> "None", args |-> <<>>])
                      ELSE command_queue
               /\ pipe_thread' = pipe_thread]_vars
    /\ shutdown_event ~> DispatchersTerminated

\* C18: shutdown was called with a request still in the queue or a break still
\* running, the dispatcher loop of the manager has ended, and the listener is
\* still in accept
C18_Witness ==
    /\ shutdown_event
    /\ pipe_thread = "accept"
    /\ \/ /\ variant = "overlays"
          /\ cmd_thread = "exited"
          /\ command_queue # <<>>
          /\ BreakActive(ThisOm, now)
       \/ /\ variant = "main"
          /\ \E d \in 1..MaxThreads :
                /\ dispatchers[d].state = "exited"
                /\ InBreak(now, dispatchers[d].break_until)
          /\ \E i \in DOMAIN command_queue : command_queue[i].cmd = "None"

\* ------------------------------------------------------------ exactly once
\* the request ids of a sequence of requests or history entries, the sentinel
\* (id 0) left out
Ids(q) == [i \in 1..Len(q) |-> q[i].id]

NoDuplicates(ids) ==
    \A i, j \in 1..Len(ids) : (i # j /\ ids[i] # 0) => ids[i] # ids[j]

IdSet(q) == {q[i].id : i \in 1..Len(q)} \ {0}

OvRemoveReads ==
    /\ variant = "overlays"
    /\ \E tm \in timers :
          /\ tm.fn = "_remove_rectangle"
          /\ now >= tm.due
          /\ timers' = timers \ {tm}
          /\ removing' = removing \cup {[rid |-> tm.id,
                                         read |-> _remove_rectangle(rectangles, tm.id)]}
    /\ UNCHANGED <<pipeVars, objVars, variant, now, nextReq, command_queue, shutdown_event, applied,
                   _threads, cmd_thread, _break_until, _pending_commands, rectangles,
                   countdowns, qrcodes, _next_rect_id, _next_countdown_id, _next_qrcode_id,
                   _qrcode_order, _countdown_order, reply_queue, mainVars>>

\* second half: self.rectangles = <the list built>, whatever other threads
\* have done to self.rectangles since it was read
OvRemoveWrites ==
    /\ variant = "overlays"
    /\ \E rm \in removing :
          /\ rectangles' = rm.read
          /\ removing' = removing \ {rm}
    /\ UNCHANGED <<pipeVars, objVars, variant, now, nextReq, command_queue, shutdown_event, applied,
                   _threads, cmd_thread, _break_until, _pending_commands, countdowns,
                   qrcodes, _next_rect_id, _next_countdown_id, _next_qrcode_id,
                   _qrcode_order, _countdown_order, timers, reply_queue, mainVars>>

\* the reply of main.py to a create_highlight whose rect has not 4 elements
InvalidRect == [status |-> "error", message |-> <<"Invalid rect parameter">>]

\* _process_pipe_command of main.py, command == "create_highlight":
\* create_highlight_window puts the tuple and the reply is returned at once
MainProcessPipeCommand(requests) ==
    /\ variant = "main"
    /\ nextReq <= MaxCmds
    /\ \E r \in requests :
          /\ r.cmd = "create_highlight"
          /\ LET rect == Get(r.args, "rect", <<>>)
                 timeout_seconds == Get(r.args, "timeout_seconds", 3)
             IN  IF Len(rect) = RectLen
                 THEN /\ command_queue' = Append(command_queue,
                                [id |-> nextReq, cmd |-> "create_highlight",
                                 args |-> <<rect, timeout_seconds>>])
                      /\ returned' = DictPut(returned, nextReq,
                                [call |-> "create_highlight",
                                 value |-> [status |-> "success",
                                            message |-> <<"Highlight window created">>]])
                 ELSE /\ UNCHANGED command_queue
                      /\ returned' = DictPut(returned, nextReq,
                                [call |-> "create_highlight", value |-> InvalidRect])
    /\ nextReq' = nextReq + 1
    /\ UNCHANGED <<pipeVars, objVars, variant, now, shutdown_event, applied, ovVars, response_queue,
                   thread, dispatchers, hwnds, next_hwnd, calls, dropped, response_for,
                   issued_ids>>

\* create_highlight requests of pipe clients
HighlightRequests ==
    {[cmd |-> "create_highlight", args |-> [rect |-> <<1, 2, 3, 4>>, timeout_seconds |-> 1]],
     [cmd |-> "create_highlight", args |-> [rect |-> <<1, 2, 3, 4>>, timeout_seconds |-> 2]],
     [cmd |-> "create_highlight", args |-> [rect |-> <<1, 2, 3>>, timeout_seconds |-> 1]]}

\* overlays.py is sent the requests with a 4-element rect
OvHighlightRequests == {r \in HighlightRequests : Len(r.args.rect) = RectLen}

\* highlights created over the pipe and expiring, each expiry of overlays.py in
\* its own Timer thread
HighlightNext ==
    \/ Tick
    \/ OvStart
    \/ OvProcessPipeCommand(OvHighlightRequests)
    \/ OvCommandThread
    \/ \E i \in 1..MaxCmds : OvCallGets(i)
    \/ OvRemoveReads
    \/ OvRemoveWrites
    \/ MainProcessPipeCommand(HighlightRequests)
    \/ \E d \in 1..MaxThreads : MainManagerThread(d)
    \/ \E d \in 1..MaxThreads : MainPumpMessages(d)

SpecHighlight == Init /\ [][HighlightNext]_vars

\* the ids of the highlights in self.rectangles
HighlightIds == {rectangles[i].id : i \in 1..Len(rectangles)}

\* the id add_highlight_window gave to the highlight of request i: its place
\* among the create_highlight commands applied
HighlightOf(i) ==
    LET k == CHOOSE k \in 1..Len(applied) : applied[k].id = i
    IN  Cardinality({j \in 1..k : applied[j].cmd = "create_highlight"})

\* C20 (as claimed): a create_highlight request with a 4-element rect is
\* answered {status: 'success', window_id: n} with n the id of the new
\* highlight; in overlays.py the highlight is present from its creation until
\* its time has elapsed, a highlight is present only while its expiry is still
\* to come, and a highlight that is not present never becomes present again.
C20_HighlightLifecycle ==
    /\ [](\A i \in DOMAIN returned :
             LET v == returned[i].value
             IN  (returned[i].call = "create_highlight" /\ v # InvalidRect /\ v # OvTimedOut)
                    => /\ DOMAIN v = {"status", "window_id"}
                       /\ v.status = "success"
                       /\ variant = "overlays" => v.window_id = HighlightOf(i))
    /\ [](\A tm \in timers :
             (tm.fn = "_remove_rectangle" /\ now < tm.due) => tm.id \in HighlightIds)
    /\ [](\A rid \in HighlightIds :
             \/ \E tm \in timers : tm.fn = "_remove_rectangle" /\ tm.id = rid
             \/ \E rm \in removing : rm.rid = rid)
    /\ [][HighlightIds' \subseteq
             HighlightIds \cup {n \in 1..MaxCmds : _next_rect_id <= n /\ n < _next_rect_id'}]_vars

\* ------------------------------------------------------------ close and update
\* requests that create, close and update overlays; window id 1 is the id of
\* the first overlay of every category
OvWindowRequests ==
    {[cmd |-> "create_countdown", args |-> [message_text |-> "m", countdown_seconds |-> 1]],
     [cmd |-> "create_elapsed_time", args |-> [message_text |-> "m"]],
     [cmd |-> "create_highlight", args |-> [rect |-> <<1, 2, 3, 4>>, timeout_seconds |-> 1]],
     [cmd |-> "create_qrcode_window", args |-> [data |-> "d", duration |-> 1, caption |-> "c"]],
     [cmd |-> "close_window", args |-> [window_id |-> 1]],
     [cmd |-> "update_window_message", args |-> [window_id |-> 1, new_message |-> "x"]]}

MainWindowRequests ==
    {[cmd |-> "create_elapsed", args |-> <<"m">>],
     [cmd |-> "close_window", args |-> <<1>>],
     [cmd |-> "update_message", args |-> <<1, "x">>]}

\* overlays are created, closed, updated and expire; main.py's manager may be
\* constructed again
WindowsNext ==
    \/ Tick
    \/ OvStart
    \/ OvProcessPipeCommand(OvWindowRequests)
    \/ OvCommandThread
    \/ OvTimerFires
    \/ OvCountdownManager
    \/ MainConstruct
    \/ MainFireAndForget(MainWindowRequests)
    \/ MainBlockingCall(MainWindowRequests)
    \/ \E i \in 1..MaxCmds : MainCallGets(i)
    \/ \E i \in 1..MaxCmds : MainCallTimesOut(i)
    \/ \E d \in 1..MaxThreads : MainManagerThread(d)

SpecWindows == Init /\ [][WindowsNext]_vars

\* the commands that create an overlay close_window and update_window_message
\* can name
CreatesWindow == {"create_countdown", "create_elapsed_time", "create_elapsed"}

\* close_window(1) has been applied after window id 1 was given to an overlay
ClosedAfterCreated ==
    \E i, k \in 1..Len(applied) :
        /\ i < k
        /\ applied[i].cmd \in CreatesWindow
        /\ applied[k].cmd = "close_window"

\* the step applies an update of the message of window 1 and nothing else
AppliesUpdate ==
    /\ Len(applied') = Len(applied) + 1
    /\ applied'[Len(applied')].cmd \in {"update_window_message", "update_message"}

\* C21 (as claimed): once close_window(id) has been applied to an overlay's
\* id, a later update_window_message(id, m) changes no overlay's message and
\* no other overlay state, whatever was created, closed or expired in between.
C21_UpdateAfterCloseNoOp ==
    [][(ClosedAfterCreated /\ AppliesUpdate)
         => UNCHANGED <<OverlayState, hwnds>>]_vars

\* ------------------------------------------------------------ countdowns
\* countdowns of one and of two seconds; the message tells them apart
OvCountdownRequests ==
    {[cmd |-> "create_countdown", args |-> [message_text |-> "n1", countdown_seconds |-> 1]],
     [cmd |-> "create_countdown", args |-> [message_text |-> "n2", countdown_seconds |-> 2]]}

MainCountdownRequests ==
    {[cmd |-> "create_countdown", args |-> <<"n1", 1>>],
     [cmd |-> "create_countdown", args |-> <<"n2", 2>>]}

\* countdowns are created and tick
CountdownNext ==
    \/ Tick
    \/ OvStart
    \/ OvProcessPipeCommand(OvCountdownRequests)
    \/ OvCommandThread
    \/ OvCountdownManager
    \/ MainFireAndForget(MainCountdownRequests)
    \/ \E d \in 1..MaxThreads : MainManagerThread(d)
    \/ \E d \in 1..MaxThreads : MainPumpMessages(d)

SpecCountdown == Init /\ [][CountdownNext]_vars

\* the countdown windows of main.py
CountdownWindows == {h \in DOMAIN hwnds : hwnds[h].kind = "countdown"}

\* the seconds a countdown was created with (its message tells)
CreatedWith(message) == IF message = "n1" THEN 1 ELSE 2

\* C22: a countdown starts at N; overlays.py: a sweep of the countdown thread
\* k seconds after the creation leaves the remaining value N - k and the entry
\* in countdowns while k < N, and deletes the entry when k >= N, and no entry
\* shows less than the time it has left; main.py: a tick (WM_TIMER) takes 1
\* from the counter, the window stays while the counter is above 0 and is
\* closed by the tick that leaves it at 0.
C22_CountdownTicks ==
    /\ [](\A cid \in DOMAIN countdowns :
             LET cd == countdowns[cid]
             IN  "end_time" \in DOMAIN cd
                    => /\ cd.remaining >= 1
                       /\ cd.remaining <= CreatedWith(cd.message)
                       /\ cd.remaining >= cd.end_time - now)
    /\ [](\A h \in CountdownWindows :
             hwnds[h].seconds >= 1 /\ hwnds[h].seconds <= CreatedWith(hwnds[h].message))
    /\ [][/\ \A cid \in DOMAIN countdowns' \ DOMAIN countdowns :
                /\ countdowns'[cid].remaining = CreatedWith(countdowns'[cid].message)
                /\ countdowns'[cid].end_time = now + countdowns'[cid].remaining
          /\ \A cid \in DOMAIN countdowns :
                LET cd == countdowns[cid]
                IN  /\ cid \notin DOMAIN countdowns' => cd.end_time - now <= 0
                    /\ (cid \in DOMAIN countdowns' /\ countdowns'[cid] # cd)
                          => /\ cd.end_time - now > 0
                             /\ countdowns'[cid]
                                  = [cd EXCEPT !.remaining = cd.end_time - now]
          /\ \A h \in CountdownWindows' \ CountdownWindows :
                hwnds'[h].seconds = CreatedWith(hwnds'[h].message)
          /\ \A h \in CountdownWindows :
                /\ h \notin DOMAIN hwnds' => hwnds[h].seconds = 1
                /\ h \in DOMAIN hwnds'
                      => /\ hwnds'[h].message = hwnds[h].message
                         /\ hwnds'[h].seconds # hwnds[h].seconds
                               => /\ hwnds[h].seconds > 1
                                  /\ hwnds'[h].seconds = hwnds[h].seconds - 1]_vars

\* C22: the countdown of 2 seconds shows 1 after one tick, in either program
C22_Witness ==
    \/ \E cid \in DOMAIN countdowns :
          /\ countdowns[cid].message = "n2"
          /\ countdowns[cid].remaining = 1
          /\ countdowns[cid].end_time = now + 1
    \/ \E h \in CountdownWindows : hwnds[h].message = "n2" /\ hwnds[h].seconds = 1

\* ------------------------------------------------------------ the API of main.py
\* a QR code request whose caption and data have changed places
create_qrcode_window_swapped(data, duration, caption) ==
    <<"create_qrcode", caption, duration, data>>

\* the tuple each fire-and-forget method of main.py puts on the command queue
create_countdown_window(message_text, countdown_seconds) ==
    <<"create_countdown", message_text, countdown_seconds>>

create_qrcode_window(data, duration, caption) == <<"create_qrcode", data, duration, caption>>

create_highlight_window(rect, timeout_seconds) == <<"create_highlight", rect, timeout_seconds>>

main_close_window(window_id) == <<"close_window", window_id>>

update_window_message(window_id, new_message) == <<"update_message", window_id, new_message>>

\* the fire-and-forget methods
FireAndForget ==
    {"create_countdown_window", "create_qrcode_window", "create_highlight_window",
     "close_window", "update_window_message"}

\* the positional arguments a user of the API calls each method with
ApiArgs(method) ==
    CASE method = "create_countdown_window" -> <<"m", 1>>
      [] method = "create_qrcode_window" -> <<"d", 1, "c">>
      [] method = "create_highlight_window" -> <<<<1, 2, 3, 4>>, 1>>
      [] method = "close_window" -> <<1>>
      [] method = "update_window_message" -> <<1, "x">>

\* the tuple the called method builds
CommandTuple(call) ==
    CASE call.method = "create_countdown_window" ->
            create_countdown_window(call.args[1], call.args[2])
      [] call.method = "create_qrcode_window" ->
            create_qrcode_window(call.args[1], call.args[2], call.args[3])
      [] call.method = "create_highlight_window" ->
            create_highlight_window(call.args[1], call.args[2])
      [] call.method = "close_window" -> main_close_window(call.args[1])
      [] call.method = "update_window_message" ->
            update_window_message(call.args[1], call.args[2])

\* a fire-and-forget method is called: self.command_queue.put(tuple), return None
MainApiCall ==
    /\ variant = "main"
    /\ nextReq <= MaxCmds
    /\ \E method \in FireAndForget :
          LET call == [method |-> method, args |-> ApiArgs(method)]
              request == CommandTuple(call)
          IN  /\ command_queue' = Append(command_queue,
                     [id |-> nextReq, cmd |-> Head(request), args |-> Tail(request)])
              /\ returned' = DictPut(returned, nextReq,
                                     [call |-> call, value |-> Response("None", 0)])
    /\ nextReq' = nextReq + 1
    /\ UNCHANGED <<pipeVars, objVars, variant, now, shutdown_event, applied, ovVars, response_queue,
                   thread, dispatchers, hwnds, next_hwnd, calls, dropped, response_for,
                   issued_ids>>

ApiNext ==
    \/ Tick
    \/ MainApiCall
    \/ \E d \in 1..MaxThreads : MainManagerThread(d)
    \/ \E d \in 1..MaxThreads : MainPumpMessages(d)

\* main.py used through its fire-and-forget methods
SpecApi == MainInit /\ [][ApiNext]_vars

\* the command the dispatcher knows for each fire-and-forget method
CommandName(method) ==
    CASE method = "create_countdown_window" -> "create_countdown"
      [] method = "create_qrcode_window" -> "create_qrcode"
      [] method = "create_highlight_window" -> "create_highlight"
      [] method = "close_window" -> "close_window"
      [] method = "update_window_message" -> "update_message"

\* C23: a call of a fire-and-forget method of main.py appends one request to
\* the tail of the command queue, the command name followed by the arguments
\* of the call in their order, and changes nothing else: the response queue
\* is not read, no thread is started, no window changes.
C23_FireAndForget ==
    [][\A i \in DOMAIN returned' \ DOMAIN returned :
          LET call == returned'[i].call
          IN  /\ command_queue'
                   = Append(command_queue,
                            [id |-> i, cmd |-> CommandName(call.method), args |-> call.args])
              /\ UNCHANGED <<response_queue, response_for, thread, dispatchers, hwnds,
                             calls, applied, dropped, shutdown_event, now>>]_vars

\* C23: create_qrcode_window was called with requests waiting in the queue,
\* and its request is the last of the queue
C23_Witness ==
    /\ variant = "main"
    /\ Len(command_queue) >= 2
    /\ \E i \in DOMAIN returned :
          /\ returned[i].call.method = "create_qrcode_window"
          /\ command_queue[Len(command_queue)].id = i

\* ------------------------------------------------------------ stacking
\* overlays that stack: countdowns of different lengths, an elapsed time
\* window that is closed by a command, a QR code
OvStackRequests ==
    {[cmd |-> "create_countdown", args |-> [message_text |-> "n1", countdown_seconds |-> 1]],
     [cmd |-> "create_elapsed_time", args |-> [message_text |-> "m"]],
     [cmd |-> "create_qrcode_window", args |-> [data |-> "d", duration |-> 1, caption |-> "c"]],
     [cmd |-> "close_window", args |-> [window_id |-> 1]]}

MainStackRequests ==
    {[cmd |-> "create_countdown", args |-> <<"n1", 1>>],
     [cmd |-> "create_countdown", args |-> <<"n2", 2>>],
     [cmd |-> "create_qrcode", args |-> <<"d", 1, "c">>]}

StackingNext ==
    \/ Tick
    \/ OvStart
    \/ OvProcessPipeCommand(OvStackRequests)
    \/ OvCommandThread
    \/ OvTimerFires
    \/ OvCountdownManager
    \/ MainFireAndForget(MainStackRequests)
    \/ \E d \in 1..MaxThreads : MainManagerThread(d)
    \/ \E d \in 1..MaxThreads : MainPumpMessages(d)

SpecStacking == Init /\ [][StackingNext]_vars

\* get_countdown_position / get_qrcode_position of draw_all: the slot index of
\* entry k is its place in sorted(d.items(), key = order)
Slot(d, k) == Cardinality({j \in DOMAIN d : d[j].order < d[k].order})

\* top of the countdown box of slot idx: TOP + idx * (BOX_H + GAP)
CountdownTop(idx) == 20 + idx * (80 + 10)

\* the order in which the entries of dict d are drawn is their insertion
\* order (ids grow with insertion), in slots 0, 1, 2, ...
StackedByInsertion(d) ==
    /\ \A a, b \in DOMAIN d : a < b => Slot(d, a) < Slot(d, b)
    /\ {Slot(d, k) : k \in DOMAIN d} = 0..(Cardinality(DOMAIN d) - 1)

\* the entries of d that remain in e keep their relative order
KeepsOrder(d, e) ==
    \A a, b \in DOMAIN d \cap DOMAIN e :
        (Slot(d, a) < Slot(d, b)) <=> (Slot(e, a) < Slot(e, b))

\* C24: main.py: the windows of a manager's active_windows are at y = 20 for
\* the first and at the previous y + previous height + 10 for each next one
\* (so y grows strictly along the list); overlays.py: countdowns and QR codes
\* are drawn in slots that follow their insertion order, and the countdown
\* boxes' tops grow with it; and no step changes the relative order of the
\* overlays that remain.
C24_StackingOrder ==
    /\ [](\A d \in 1..MaxThreads :
             LET aw == dispatchers[d].active_windows
             IN  \A i \in 1..Len(aw) :
                    /\ aw[i] \in DOMAIN hwnds
                    /\ hwnds[aw[i]].y = IF i = 1 THEN 20
                                        ELSE hwnds[aw[i - 1]].y + hwnds[aw[i - 1]].height + 10
                    /\ i > 1 => hwnds[aw[i]].y > hwnds[aw[i - 1]].y)
    /\ [](/\ StackedByInsertion(countdowns)
          /\ StackedByInsertion(qrcodes)
          /\ \A a, b \in DOMAIN countdowns :
                a < b => CountdownTop(Slot(countdowns, a)) < CountdownTop(Slot(countdowns, b)))
    /\ [][/\ KeepsOrder(countdowns, countdowns')
          /\ KeepsOrder(qrcodes, qrcodes')
          /\ \A a, b \in DOMAIN hwnds \cap DOMAIN hwnds' :
                (hwnds[a].kind # "highlight" /\ hwnds[b].kind # "highlight")
                   => ((hwnds[a].y < hwnds[b].y) <=> (hwnds'[a].y < hwnds'[b].y))]_vars

\* C24: an overlay was removed from the middle or the top of a stack of three
\* and two remain
C24_Witness ==
    \/ /\ variant = "main"
       /\ next_hwnd = 4
       /\ \E d \in 1..MaxThreads : Len(dispatchers[d].active_windows) = 2
    \/ /\ variant = "overlays"
       /\ _next_countdown_id = 4
       /\ Cardinality(DOMAIN countdowns) = 2

\* ------------------------------------------------------------ a command that raises
\* C25 (as claimed): the dispatcher thread does not end when the execution of
\* a command raises: the thread is never dead, and a step in which a command
\* raised leaves the thread running with the commands behind it still to be
\* dequeued.
C25_DispatcherSurvives ==
    /\ [](cmd_thread # "dead")
    /\ [][(OvDequeues /\ HandleCommand(ThisOm, Head(command_queue), now).raised)
            => cmd_thread' = "running"]_vars

\* ------------------------------------------------------------ one reply per request
\* requests of pipe clients in ACTIVE and in PAUSED state, none of which raises:
\* with all arguments, and with an argument left out
OvReplyRequests ==
    {[cmd |-> "create_countdown", args |-> [message_text |-> "m", countdown_seconds |-> 1]],
     [cmd |-> "close_window", args |-> [window_id |-> 1]],
     [cmd |-> "close_window", args |-> EmptyDict],
     [cmd |-> "update_window_message", args |-> [window_id |-> 1]],
     [cmd |-> "take_break", args |-> [duration_seconds |-> 1]],
     [cmd |-> "cancel_break", args |-> EmptyDict]}

RepliesNext ==
    \/ Tick
    \/ OvStart
    \/ OvProcessPipeCommand(OvReplyRequests)
    \/ OvCommandThread
    \/ OvCountdownManager

SpecReplies == OvInit /\ [][RepliesNext]_vars

\* the clock runs, the manager is started and its threads are scheduled
FairSpecReplies ==
    /\ SpecReplies
    /\ WF_vars(Tick)
    /\ WF_vars(OvStart)
    /\ WF_vars(OvCommandThread)
    /\ WF_vars(OvCountdownManager)

\* C26 (as claimed): for every request put on the command queue of overlays.py
\* the dispatcher eventually puts exactly one reply on the request's reply
\* queue: never two replies, and eventually one.
C26_ExactlyOneReply ==
    \A i \in 1..MaxCmds :
        /\ [](Len(reply_queue[i]) <= 1)
        /\ (nextReq > i) ~> (Len(reply_queue[i]) = 1)

\* ------------------------------------------------------------ concurrent removals
\* the highlights added so far whose _remove_rectangle has not completed: the
\* Timer has not fired, or its removal has not assigned self.rectangles yet
AddedNotRemoved ==
    {rid \in 1..(_next_rect_id - 1) :
        \/ \E tm \in timers : tm.fn = "_remove_rectangle" /\ tm.id = rid
        \/ \E rm \in removing : rm.rid = rid}

\* C27 (as claimed): under every interleaving of add_highlight_window with the
\* _remove_rectangle calls of the timer threads, self.rectangles holds exactly
\* the highlights that were added and whose own removal has not completed.
C27_RectanglesExact ==
    variant = "overlays" => HighlightIds = AddedNotRemoved

\* ------------------------------------------------------------ close and update act on countdowns
\* the step of overlays.py executes one close_window or update_window_message
OvClosesOrUpdates ==
    /\ OvDequeues
    /\ Head(command_queue).cmd \in {"close_window", "update_window_message"}
    /\ Len(applied') = Len(applied) + 1

\* C28: in overlays.py a close_window(id) or update_window_message(id, msg)
\* changes at most the entry countdowns[id]: close removes it, update replaces
\* its message and keeps its other fields; every other countdown, every
\* rectangle, every QR code, the timers and the id counters stay as they are,
\* also when a highlight or a QR code has the same id.
C28_OnlyCountdowns ==
    [][OvClosesOrUpdates
         => LET req == Head(command_queue)
                id == req.args.window_id
            IN  /\ UNCHANGED <<rectangles, qrcodes, timers, _next_rect_id, _next_qrcode_id,
                               _next_countdown_id, _qrcode_order, _countdown_order>>
                /\ DOMAIN countdowns' = IF req.cmd = "close_window"
                                        THEN DOMAIN countdowns \ {id}
                                        ELSE DOMAIN countdowns
                /\ \A cid \in DOMAIN countdowns' :
                      countdowns'[cid]
                         = IF cid = id
                           THEN [countdowns[cid] EXCEPT !.message = req.args.new_message]
                           ELSE countdowns[cid]]_vars

\* C28: the countdown with id 1 was updated or closed while a highlight and a
\* QR code with id 1 are shown
C28_Witness ==
    /\ variant = "overlays"
    /\ \E i \in 1..Len(rectangles) : rectangles[i].id = 1
    /\ 1 \in DOMAIN qrcodes
    /\ \/ 1 \in DOMAIN countdowns /\ countdowns[1].message = "x"
       \/ _next_countdown_id > 1 /\ 1 \notin DOMAIN countdowns
             /\ \E k \in 1..Len(applied) : applied[k].cmd = "close_window"

\* ------------------------------------------------------------ ElapsedTimeWindow counts while running
\* an ElapsedTimeWindow of main.py, by itself
SpecElapsed == MainInit /\ [][ElapsedNext]_vars

\* C29: an ElapsedTimeWindow starts with elapsed_seconds = 0 and running; a
\* timer tick while it runs adds exactly 1 to elapsed_seconds and requests a
\* repaint, not a close; a tick after stop() leaves elapsed_seconds as it is,
\* requests no repaint and posts WM_CLOSE; once stopped, running stays false.
C29_ElapsedTicks ==
    /\ [](etw.constructed /\ etw.ticks = 0 /\ ~etw.stopped
            => etw.elapsed_seconds = 0 /\ etw.running)
    /\ [][etw'.ticks = etw.ticks + 1
            => IF etw.stopped
               THEN /\ etw'.elapsed_seconds = etw.elapsed_seconds
                    /\ etw'.calls = Append(etw.calls, "PostMessage WM_CLOSE")
               ELSE /\ etw'.elapsed_seconds = etw.elapsed_seconds + 1
                    /\ etw'.calls = Append(etw.calls, "InvalidateRect")]_vars
    /\ [](etw.stopped => ~etw.running)

\* C29: a window that counted, was stopped and got a tick after that
C29_Witness ==
    /\ etw.stopped
    /\ etw.elapsed_seconds >= 1
    /\ etw.ticks > etw.elapsed_seconds
    /\ etw.calls # <<>>
    /\ etw.calls[Len(etw.calls)] = "PostMessage WM_CLOSE"

\* ------------------------------------------------------------ GDIContext selects, restores, deletes
\* a GDIContext of helpers.py, by itself
SpecGdi == MainInit /\ [][GdiNext]_vars

Kinds == {"pen", "brush", "font"}

Obj(g, kind) == CASE kind = "pen" -> g.pen [] kind = "brush" -> g.brush [] OTHER -> g.font

Old(g, kind) ==
    CASE kind = "pen" -> g.old_pen [] kind = "brush" -> g.old_brush [] OTHER -> g.old_font

\* the kinds of object the context was given
Provided == {kind \in Kinds : Obj(gdi, kind) # "None"}

\* the calls made on entering, and those made on leaving
EnterCalls == SubSeq(gdi.calls, 1, gdi.enter_len)

ExitCalls == SubSeq(gdi.calls, gdi.enter_len + 1, Len(gdi.calls))

\* how often a sequence of calls holds a call
Count(log, call) == Cardinality({k \in 1..Len(log) : log[k] = call})

CountFn(log, fn) == Cardinality({k \in 1..Len(log) : log[k].fn = fn})

\* C30: entering a GDIContext selects exactly the provided objects; leaving
\* it, also after the body raised, restores the previous object of a kind
\* exactly when selecting that kind returned something other than None, and
\* deletes every provided object exactly once; with no object provided no
\* SelectObject and no DeleteObject call is made.
C30_GdiContext ==
    /\ gdi.state \in {"entered", "exited"}
          => /\ Len(EnterCalls) = Cardinality(Provided)
             /\ \A kind \in Provided : Count(EnterCalls, SelectObject(Obj(gdi, kind))) = 1
    /\ gdi.state = "exited"
          => /\ CountFn(ExitCalls, "DeleteObject") = Cardinality(Provided)
             /\ \A kind \in Provided : Count(ExitCalls, DeleteObject(Obj(gdi, kind))) = 1
             /\ CountFn(ExitCalls, "SelectObject")
                   = Cardinality({kind \in Provided : Old(gdi, kind) # "None"})
             /\ \A kind \in Provided :
                   Old(gdi, kind) # "None"
                      => Count(ExitCalls, SelectObject(Old(gdi, kind))) >= 1
    /\ Provided = {} => gdi.calls = <<>>

\* C30: the body raised and the context was left; the pen had no previous
\* object, the brush had one, the previous font was the handle 0
C30_Witness ==
    /\ gdi.state = "exited"
    /\ gdi.exc
    /\ Provided = Kinds
    /\ gdi.old_pen = "None"
    /\ gdi.old_brush = "old_brush"
    /\ gdi.old_font = "NULL"

====
